---- MODULE Spec2Model ----
(***************************************************************************)
(* A model of the interactive-session protocols of computer/:              *)
(*   - services/notebook.py, KernelSession.execute: the iopub message pump *)
(*     against the kernel's broadcast channel, step by step (SpecPump);    *)
(*   - services/notebook.py, NotebookService: documents, cells and their   *)
(*     execution, one action per handler (SpecService, SpecDoc);           *)
(*   - tools/bash.py: _BashSession (sentinel framing over the shell's      *)
(*     pipes) and BashTool (the session the tool owns, restart), with      *)
(*     concurrent callers (SpecShell).                                     *)
(* The three parts share no program state; each has its own variables and  *)
(* its own next-state relation.                                            *)
(***************************************************************************)
EXTENDS Integers, Sequences, FiniteSets, TLC

(***************************************************************************)
(* Bounds of the model.                                                    *)
(***************************************************************************)
\* Notebooks ever created (each create_notebook draws a fresh uuid4).
MaxDocs == 1
\* Cells ever added (each add_cell draws a fresh uuid4).
MaxCells == 2
\* execute calls made on one kernel session.
MaxExec == 3
\* Broadcast messages the kernel of SpecPump sends.
MaxMsgs == 3
\* BashTool calls ever made (each creates at most one session and writes at
\* most one command line).
MaxCalls == 4
\* Characters in the text of a cell given to the codec.
MaxText == 3

(***************************************************************************)
(* Python's Optional: None is the empty tuple, a value x is <<x>>.         *)
(***************************************************************************)
None == <<>>
Some(x) == <<x>>

\* dict with a key set
With(f, k, v) == [x \in DOMAIN f \cup {k} |-> IF x = k THEN v ELSE f[x]]

(***************************************************************************)
(* notebook.py: types                                                      *)
(***************************************************************************)
CellType == {"code", "markdown", "raw"}
CellStatus == {"idle", "running", "complete", "error"}

\* The code a cell may hold, by what the kernel does with it: "ok" prints and
\* yields a value, "fail" displays something and then raises, "silent" (an
\* assignment, say) produces neither output nor error.
CodeContents == {"ok", "fail", "silent"}

\* What add_cell is called with.
CellInputs ==
    [type : {"code"}, content : CodeContents]
        \cup [type : {"markdown"}, content : {"text"}]

\* The kernel names create_notebook is called with: one installed kernel spec
\* and one that is not installed (NoSuchKernel).
KernelNames == {"python3", "nokernel"}

\* NotebookCell(type=..., content=...) with the defaults of its fields.
NotebookCell(id, type, content) ==
    [id |-> id, type |-> type, content |-> content, execution_count |-> None,
     outputs |-> <<>>, status |-> "idle", error |-> None, metadata |-> {}]

\* Notebook(name=..., kernel_name=...) made at time now, with the default
\* (empty) cells.
Notebook(id, kernel_name, now) ==
    [id |-> id, kernel_name |-> kernel_name, cells |-> <<>>, updated_at |-> now]

(***************************************************************************)
(* The kernel, as the message transport shows it: the iopub messages it    *)
(* broadcasts, in order.  Every message carries the request it answers     *)
(* (parent), which the pump never reads.                                   *)
(***************************************************************************)
Msg(type, parent) == [type |-> type, parent |-> parent]

\* The message types of the broadcast channel: the two statuses, the three
\* outputs and the error.
MsgTypes == {"busy", "idle", "stream", "execute_result", "display_data", "error"}

\* The broadcast messages of one execute request of a notebook cell.
Script(content, parent) ==
    CASE content = "ok" ->
            << Msg("busy", parent), Msg("stream", parent),
               Msg("execute_result", parent), Msg("idle", parent) >>
      [] content = "fail" ->
            << Msg("busy", parent), Msg("display_data", parent),
               Msg("error", parent), Msg("idle", parent) >>
      [] OTHER ->
            << Msg("busy", parent), Msg("idle", parent) >>

VARIABLES
    \* ---- SpecPump: one KernelSession, its kernel and one caller of execute
    session,          \* the KernelSession: execution_count
    chan,             \* its client's iopub channel: broadcast and not yet read
    sent,             \* how many messages the kernel has broadcast
    pump,             \* where execute stands, and its locals
    presult,          \* what the last execute call returned
    \* ---- Spec: NotebookService
    notebooks,        \* self.notebooks: id -> Notebook
    kernel_sessions,  \* self.kernel_sessions: id -> KernelSession
    nextDoc,          \* the next fresh notebook id
    nextCell,         \* the next fresh cell id
    iopub,            \* id -> the session's unread broadcast messages
    op,               \* the handler that is inside a get_iopub_msg loop, if any
    result,           \* what the last KernelSession.execute returned
    ret,              \* how the last handler call ended
    clock,            \* the last reading of datetime.utcnow()
    files,            \* the ids whose artifact {id}.ipynb exists
    effects,          \* what the last handler call did outside the registries
    \* ---- SpecCells: the Jupyter format
    notebook,         \* the Notebook given to _to_jupyter_format, if any
    notebook_data,    \* the Jupyter-format dict, written or read, if any
    loaded,           \* what _from_jupyter_format returned, if anything
    \* ---- SpecShell: BashTool, its sessions, their processes, the callers
    tool_session,     \* BashTool._session: a session id, or 0 for None
    sessions,         \* id -> _BashSession: _started, _timed_out
    procs,            \* id -> the session's process and its pipes
    nextSession,      \* the next fresh session id
    ncalls,           \* BashTool calls made so far
    call,             \* caller -> where its BashTool call stands
    \* ---- SpecStore: NotebookService at its suspension points (the other
    \* specifications take a handler and its write as one step, and follow in
    \* files only whether the artifact exists)
    disk,             \* id -> the content of {id}.ipynb
    writes            \* the write_file jobs handed to the executor and not yet run

pumpVars == << session, chan, sent, pump, presult >>
nbVars == << notebooks, kernel_sessions, nextDoc, nextCell, iopub, op, result, ret,
            clock, files, effects >>
codVars == << notebook, notebook_data, loaded >>
shVars == << tool_session, sessions, procs, nextSession, ncalls, call >>
stVars == << disk, writes >>

vars == << pumpVars, nbVars, shVars, codVars, stVars >>

(***************************************************************************)
(* KernelSession.execute                                                   *)
(***************************************************************************)
\* The message types execute records as outputs.
OutputTypes == {"stream", "execute_result", "display_data"}

\* execute's classification of one message: the outputs after it.
PumpOutputs(outputs, msg) ==
    IF msg.type \in OutputTypes THEN Append(outputs, msg.type) ELSE outputs

\* A faulty termination rule: any idle status ends the loop.
PumpStopsOnAnyIdle(outputs, msg) ==
    \/ msg.type = "error"
    \/ msg.type = "idle"

\* execute's termination rule: whether the loop breaks on msg, with outputs
\* recorded before it (error is still None wherever the loop tests it).
PumpStops(outputs, msg) ==
    \/ msg.type = "error"
    \/ msg.type = "idle" /\ outputs # <<>>

\* The error record execute builds from an error message / from an exception.
GuestError == Some("GuestError")
GenericError == Some("Exception")

\* The error execute returns when the loop breaks on msg.
PumpError(msg) == IF msg.type = "error" THEN GuestError ELSE None

\* The dict execute returns.
ExecResult(count, outputs, error) ==
    [execution_count |-> count, outputs |-> outputs, error |-> error]

NoPump == [pc |-> "idle", outputs |-> <<>>, consumed |-> <<>>]
NoResult == None

InitPump ==
    /\ session = [execution_count |-> 0]
    /\ chan = <<>>
    /\ sent = 0
    /\ pump = NoPump
    /\ presult = NoResult

\* execute(code) is called: the request is sent, the counter incremented.
Execute ==
    /\ pump.pc = "idle"
    /\ session.execution_count < MaxExec
    /\ session' = [session EXCEPT !.execution_count = @ + 1]
    /\ pump' = [pc |-> "recv", outputs |-> <<>>, consumed |-> <<>>]
    /\ presult' = NoResult
    /\ UNCHANGED << chan, sent >>
    /\ UNCHANGED << nbVars, shVars, codVars, stVars >>

\* get_iopub_msg returns a message: classify it, then break and return, or loop.
PumpRecv ==
    /\ pump.pc = "recv"
    /\ chan # <<>>
    /\ LET msg == Head(chan)
           outputs == PumpOutputs(pump.outputs, msg)
       IN  /\ chan' = Tail(chan)
           /\ IF PumpStops(pump.outputs, msg)
              THEN /\ pump' = [pc |-> "idle", outputs |-> outputs,
                               consumed |-> Append(pump.consumed, msg)]
                   /\ presult' = Some(ExecResult(session.execution_count, outputs,
                                                 PumpError(msg)))
              ELSE /\ pump' = [pump EXCEPT !.outputs = outputs,
                                           !.consumed = Append(@, msg)]
                   /\ UNCHANGED presult
    /\ UNCHANGED << session, sent >>
    /\ UNCHANGED << nbVars, shVars, codVars, stVars >>

\* get_iopub_msg waits for timeout seconds with nothing to read and raises Empty.
PumpEmpty ==
    /\ pump.pc = "recv"
    /\ chan = <<>>
    /\ pump' = [pump EXCEPT !.pc = "empty"]
    /\ UNCHANGED << session, chan, sent, presult >>
    /\ UNCHANGED << nbVars, shVars, codVars, stVars >>

\* "except Empty: continue"
PumpContinue ==
    /\ pump.pc = "empty"
    /\ pump' = [pump EXCEPT !.pc = "recv"]
    /\ UNCHANGED << session, chan, sent, presult >>
    /\ UNCHANGED << nbVars, shVars, codVars, stVars >>

\* get_iopub_msg raises another exception (the transport fails): the outer
\* except builds the generic error record and execute returns.
PumpFault ==
    /\ pump.pc = "recv"
    /\ pump' = [pump EXCEPT !.pc = "idle"]
    /\ presult' = Some(ExecResult(session.execution_count, pump.outputs, GenericError))
    /\ UNCHANGED << session, chan, sent >>
    /\ UNCHANGED << nbVars, shVars, codVars, stVars >>

\* The kernel broadcasts a message; it is free in what it sends and when.
KernelEmit(type) ==
    /\ sent < MaxMsgs
    /\ sent' = sent + 1
    /\ chan' = Append(chan, Msg(type, session.execution_count))
    /\ UNCHANGED << session, pump, presult >>
    /\ UNCHANGED << nbVars, shVars, codVars, stVars >>

(***************************************************************************)
(* KernelSession.execute as one step of a handler: the loop of PumpRecv    *)
(* over the messages the channel delivers to the call.                     *)
(***************************************************************************)
\* The loop from the k-th message of stream on.  It returns at the message it
\* breaks on; when the messages run out without a break it never returns
\* (every later get_iopub_msg raises Empty and the loop continues).
RECURSIVE RunPump(_, _, _)
RunPump(stream, k, outputs) ==
    IF k > Len(stream)
    THEN [returns |-> FALSE, outputs |-> outputs, error |-> None, read |-> Len(stream)]
    ELSE IF PumpStops(outputs, stream[k])
    THEN [returns |-> TRUE, outputs |-> PumpOutputs(outputs, stream[k]),
          error |-> PumpError(stream[k]), read |-> k]
    ELSE RunPump(stream, k + 1, PumpOutputs(outputs, stream[k]))

\* execute on a transport that delivers stream and does not fail.
RunExecute(stream) == RunPump(stream, 1, <<>>)

(***************************************************************************)
(* NotebookService                                                         *)
(***************************************************************************)
DocIds == 1 .. MaxDocs
\* The ids handlers are called with: those drawn so far and one never drawn.
DocArgs == 1 .. nextDoc
CellArgs == 1 .. nextCell
CellIds == 1 .. MaxCells

NoOp == [kind |-> "none", doc |-> 0, idx |-> 0]

\* How a handler call ended: the HTTP status (200: it returned) and what the
\* detail of its HTTPException says; for execute_all_cells the cells before
\* the call and the indices of executed_cells, for execute_cell the cells
\* before the call and the index of the code cell it executed.
Ret(name, doc, code, detail, before, executed) ==
    [op |-> name, doc |-> doc, code |-> code, detail |-> detail, before |-> before,
     executed |-> executed]

\* datetime.utcnow(): a reading later than every reading before it.
UtcNow == clock + 1

\* What a handler does outside the registries, as the entry of effects:
\* _save_notebook writes the artifact (or raises), KernelSession.shutdown
\* stops the kernel (or swallows the exception), unlink removes the artifact
\* (or raises).
SaveEffect(ok) == IF ok THEN "save" ELSE "save failed"
UnlinkEffect(ok) == IF ok THEN "unlink" ELSE "unlink failed"

\* How KernelSession.shutdown goes: client.shutdown() and then
\* kernel_manager.shutdown_kernel() return, or the first raises, or the second.
ShutdownOutcomes == {"stops", "client.shutdown raises", "shutdown_kernel raises"}

\* shutdown as the entry of effects.  The two calls stand in one try block:
\* when client.shutdown() raises, shutdown_kernel() is not reached.
ShutdownEffect(shutdown) ==
    CASE shutdown = "stops" -> "shutdown"
      [] shutdown = "shutdown_kernel raises" -> "shutdown failed"
      [] OTHER -> "shutdown failed, kernel not asked"

\* The artifacts after _save_notebook of notebook d.
Saved(d, ok) == IF ok THEN files \cup {d} ELSE files

\* dict without a key
Without(f, k) == [x \in DOMAIN f \ {k} |-> f[x]]

InitNotebook ==
    /\ notebooks = << >>
    /\ kernel_sessions = << >>
    /\ nextDoc = 1
    /\ nextCell = 1
    /\ iopub = << >>
    /\ op = NoOp
    /\ result = NoResult
    /\ ret = Ret("none", 0, 200, "", <<>>, <<>>)
    /\ clock = 0
    /\ files = {}
    /\ effects = <<>>

\* KernelSession.__init__: whether the kernel starts.  NoSuchKernel for a name
\* that is not installed, any other exception when the launch fails.
KernelStarts(kernel_name, launchOK) == kernel_name = "python3" /\ launchOK

\* get_kernel_spec(kernel_name): the statically declared metadata of the
\* kernel spec.
KernelSpec(kernel_name) == [display_name |-> "Python 3", language |-> "python"]

\* The language_info of a kernel_info reply that has one.
LanguageInfo ==
    [name |-> "ipython", file_extension |-> ".py", mimetype |-> "text/x-python",
     version |-> "3.11"]

\* How the identity request of _get_kernel_info goes, as the entry of
\* effects: the kernel replies, with a language_info or without one;
\* get_shell_msg runs into its timeout (Empty); the request or the reading of
\* the reply raises something else; get_kernel_spec raises before any request
\* is made.
InfoOutcomes ==
    {"kernel_info replied", "kernel_info replied bare", "kernel_info timed out",
     "kernel_info raised", "get_kernel_spec raised"}

\* KernelInfo(...)
KernelInfo(name, display_name, language, file_extension, mimetype, version) ==
    [name |-> name, display_name |-> display_name, language |-> language,
     file_extension |-> file_extension, mimetype |-> mimetype, version |-> version]

\* A faulty _get_kernel_info without the fallback: only a reply gives an
\* identity.
GetKernelInfoNoFallback(kernel_name, info) ==
    LET spec == KernelSpec(kernel_name)
        language_info == IF info = "kernel_info replied" THEN Some(LanguageInfo) ELSE None
    IN  IF info \in {"kernel_info replied", "kernel_info replied bare"}
        THEN Some(KernelInfo(kernel_name, spec.display_name,
                             IF language_info = None THEN spec.language
                             ELSE language_info[1].name,
                             IF language_info = None THEN ""
                             ELSE language_info[1].file_extension,
                             IF language_info = None THEN "text/plain"
                             ELSE language_info[1].mimetype,
                             IF language_info = None THEN None
                             ELSE Some(language_info[1].version)))
        ELSE None

\* _get_kernel_info: the KernelInfo it returns, None when it raises.  The
\* except branch reads spec, which is unbound when get_kernel_spec raised:
\* the UnboundLocalError leaves the function.
GetKernelInfo(kernel_name, info) ==
    LET spec == KernelSpec(kernel_name)
        language_info == IF info = "kernel_info replied" THEN Some(LanguageInfo) ELSE None
    IN  IF info \in {"kernel_info replied", "kernel_info replied bare"}
        THEN Some(KernelInfo(kernel_name, spec.display_name,
                             IF language_info = None THEN spec.language
                             ELSE language_info[1].name,
                             IF language_info = None THEN ""
                             ELSE language_info[1].file_extension,
                             IF language_info = None THEN "text/plain"
                             ELSE language_info[1].mimetype,
                             IF language_info = None THEN None
                             ELSE Some(language_info[1].version)))
        ELSE IF info = "get_kernel_spec raised" THEN None
        ELSE Some(KernelInfo(kernel_name, spec.display_name, spec.language, ".txt",
                             "text/plain", None))

\* KernelSession(kernel_name) once the kernel has started: the session, None
\* when __init__ raises.
KernelSession(kernel_name, info) ==
    IF GetKernelInfo(kernel_name, info) = None THEN None
    ELSE Some([execution_count |-> 0, kernel_info |-> GetKernelInfo(kernel_name, info)[1]])

\* next((c for c in notebook.cells if c.id == cell_id), None): its index, or 0.
CellIndex(cells, cell_id) ==
    LET hits == {i \in 1 .. Len(cells) : cells[i].id = cell_id}
    IN  IF hits = {} THEN 0 ELSE CHOOSE i \in hits : \A j \in hits : i <= j

\* The indices of the code cells.
CodeCells(cells) == {i \in 1 .. Len(cells) : cells[i].type = "code"}

\* A faulty execute_all_cells that runs on after a cell in error.
StopAfterNever(cell) == FALSE

\* execute_all_cells: "if executed_cell.status == CellStatus.ERROR: break".
StopAfter(cell) == cell.status = "error"

\* A faulty execute_cell that marks every executed cell complete.
RecordedComplete(cell, res, saveOK) ==
    LET set == [cell EXCEPT !.execution_count = Some(res.execution_count),
                            !.outputs = res.outputs,
                            !.error = res.error,
                            !.status = "complete"]
    IN  IF saveOK THEN set
        ELSE [set EXCEPT !.status = "error", !.error = GenericError]

\* A faulty execute_cell whose except branch sets the status and no error.
RecordedStatusOnly(cell, res, saveOK) ==
    LET set == [cell EXCEPT !.execution_count = Some(res.execution_count),
                            !.outputs = res.outputs,
                            !.error = res.error,
                            !.status = IF res.error # None THEN "error" ELSE "complete"]
    IN  IF saveOK THEN set
        ELSE [set EXCEPT !.status = "error"]

\* A faulty execute_cell without the except branch: a failing save leaves the
\* cell as the try block had it when it raised, and a status set only after
\* the save is never set.
RecordedLeftRunning(cell, res, saveOK) ==
    LET set == [cell EXCEPT !.execution_count = Some(res.execution_count),
                            !.outputs = res.outputs,
                            !.error = res.error]
    IN  IF saveOK
        THEN [set EXCEPT !.status = IF res.error # None THEN "error" ELSE "complete"]
        ELSE [set EXCEPT !.status = "running"]

\* execute_cell, after session.execute returned res: the cell as the call
\* leaves it.  A failing save lands in the except branch.
Recorded(cell, res, saveOK) ==
    LET set == [cell EXCEPT !.execution_count = Some(res.execution_count),
                            !.outputs = res.outputs,
                            !.error = res.error,
                            !.status = IF res.error # None THEN "error" ELSE "complete"]
    IN  IF saveOK THEN set
        ELSE [set EXCEPT !.status = "error", !.error = GenericError]

\* What may go wrong around one execution: nothing, client.execute raising
\* before the request is out ("send"), _save_notebook raising ("save").
Faults == {"none", "send", "save"}

\* execute_cell on a code cell, from "cell.status = RUNNING" to its end, on a
\* session that has made count calls and holds stale unread messages.  When
\* client.execute raises, execute has neither counted the call nor read a
\* message, and the except branch of execute_cell sets status and error only.
RunCell(cell, count, stale, fault) ==
    LET stream == stale \o Script(cell.content, count + 1)
        p == RunExecute(stream)
        res == ExecResult(count + 1, p.outputs, p.error)
    IN  IF fault = "send"
        THEN [returns |-> TRUE, raised |-> TRUE,
              cell |-> [cell EXCEPT !.status = "error", !.error = GenericError],
              res |-> None, stale |-> stale, count |-> count, stamped |-> FALSE,
              effects |-> << "client.execute failed" >>]
        ELSE IF p.returns
        THEN [returns |-> TRUE, raised |-> fault = "save",
              cell |-> Recorded(cell, res, fault # "save"),
              res |-> Some(res), stale |-> SubSeq(stream, p.read + 1, Len(stream)),
              count |-> count + 1, stamped |-> TRUE,
              effects |-> << "client.execute", SaveEffect(fault # "save") >>]
        ELSE [returns |-> FALSE, raised |-> FALSE,
              cell |-> [cell EXCEPT !.status = "running"],
              res |-> None, stale |-> <<>>, count |-> count + 1, stamped |-> FALSE,
              effects |-> << "client.execute" >>]

\* The loop of execute_all_cells from index i on.  failAt is the index of the
\* cell whose execution meets fault, 0 when none does.  ticks counts the
\* executions that set updated_at.
RECURSIVE RunAll(_, _, _, _, _, _, _, _)
RunAll(cells, i, count, stale, executed, res, failAt, fault) ==
    IF i > Len(cells)
    THEN [cells |-> cells, count |-> count, stale |-> stale, executed |-> executed,
          res |-> res, code |-> 200, stuck |-> 0, ticks |-> 0, effects |-> <<>>,
          saved |-> FALSE]
    ELSE IF cells[i].type # "code"
    THEN RunAll(cells, i + 1, count, stale, executed, res, failAt, fault)
    ELSE LET r == RunCell(cells[i], count, stale, IF failAt = i THEN fault ELSE "none")
             cells1 == [cells EXCEPT ![i] = r.cell]
             out == [cells |-> cells1, count |-> r.count, stale |-> r.stale,
                     executed |-> executed,
                     res |-> IF r.raised /\ r.res = None THEN res ELSE r.res,
                     code |-> 200, stuck |-> 0,
                     ticks |-> IF r.stamped THEN 1 ELSE 0, effects |-> r.effects,
                     saved |-> r.returns /\ ~r.raised]
         IN  IF ~r.returns THEN [out EXCEPT !.stuck = i]
             ELSE IF r.raised THEN [out EXCEPT !.code = 500]
             ELSE IF StopAfter(r.cell) THEN [out EXCEPT !.executed = Append(executed, i)]
             ELSE LET rest == RunAll(cells1, i + 1, r.count, r.stale,
                                     Append(executed, i), r.res, failAt, fault)
                  IN  [rest EXCEPT !.ticks = @ + 1, !.effects = r.effects \o @,
                                   !.saved = TRUE]

\* create_notebook
CreateNotebook(kernel_name, launchOK, info, saveOK) ==
    /\ op = NoOp
    /\ nextDoc <= MaxDocs
    /\ nextDoc' = nextDoc + 1
    /\ notebooks' = With(notebooks, nextDoc, Notebook(nextDoc, kernel_name, UtcNow))
    /\ clock' = UtcNow
    /\ IF KernelStarts(kernel_name, launchOK) /\ KernelSession(kernel_name, info) # None
       THEN /\ kernel_sessions' = With(kernel_sessions, nextDoc,
                                       KernelSession(kernel_name, info)[1])
            /\ iopub' = With(iopub, nextDoc, <<>>)
            /\ files' = Saved(nextDoc, saveOK)
            /\ effects' = << "start_kernel", info, SaveEffect(saveOK) >>
            /\ ret' = IF saveOK
                      THEN Ret("create_notebook", nextDoc, 200, "", <<>>, <<>>)
                      ELSE Ret("create_notebook", nextDoc, 500,
                               "Failed to create notebook: save", <<>>, <<>>)
       ELSE /\ ret' = Ret("create_notebook", nextDoc, 500,
                          "Failed to create notebook: kernel", <<>>, <<>>)
            /\ effects' = IF KernelStarts(kernel_name, launchOK)
                          THEN << "start_kernel", info >> ELSE <<>>
            /\ UNCHANGED << kernel_sessions, iopub, files >>
    /\ UNCHANGED << nextCell, op, result >>
    /\ UNCHANGED << pumpVars, shVars, codVars, stVars >>

\* A faulty add_cell that puts the new cell first.
Prepended(cells, cell) == << cell >> \o cells

\* add_cell: "notebook.cells.append(cell)".
Appended(cells, cell) == Append(cells, cell)

\* add_cell
AddCell(d, in, saveOK) ==
    /\ op = NoOp
    /\ IF d \notin DOMAIN notebooks
       THEN /\ ret' = Ret("add_cell", d, 404, "Notebook not found", <<>>, <<>>)
            /\ effects' = <<>>
            /\ UNCHANGED << notebooks, nextCell, clock, files >>
       ELSE /\ nextCell <= MaxCells
            /\ nextCell' = nextCell + 1
            /\ notebooks' = [notebooks EXCEPT
                    ![d].cells = Appended(@, NotebookCell(nextCell, in.type, in.content)),
                    ![d].updated_at = UtcNow]
            /\ clock' = UtcNow
            /\ files' = Saved(d, saveOK)
            /\ effects' = << SaveEffect(saveOK) >>
            /\ ret' = IF saveOK THEN Ret("add_cell", d, 200, "", <<>>, <<>>)
                      ELSE Ret("add_cell", d, 500, "Internal Server Error", <<>>, <<>>)
    /\ UNCHANGED << kernel_sessions, nextDoc, iopub, op, result >>
    /\ UNCHANGED << pumpVars, shVars, codVars, stVars >>

\* execute_cell
ExecuteCell(d, cell_id, fault) ==
    /\ op = NoOp
    /\ IF d \notin DOMAIN notebooks
       THEN /\ ret' = Ret("execute_cell", d, 404, "Notebook not found", <<>>, <<>>)
            /\ effects' = <<>>
            /\ UNCHANGED << notebooks, kernel_sessions, iopub, op, result, clock, files >>
       ELSE IF d \notin DOMAIN kernel_sessions
       THEN /\ ret' = Ret("execute_cell", d, 500, "Kernel session not found",
                          <<>>, <<>>)
            /\ effects' = <<>>
            /\ UNCHANGED << notebooks, kernel_sessions, iopub, op, result, clock, files >>
       ELSE LET cells == notebooks[d].cells
                i == CellIndex(cells, cell_id)
                count == kernel_sessions[d].execution_count
                r == RunCell(cells[i], count, iopub[d], fault)
            IN  IF i = 0
                THEN /\ ret' = Ret("execute_cell", d, 404, "Cell not found", <<>>, <<>>)
                     /\ effects' = <<>>
                     /\ UNCHANGED << notebooks, kernel_sessions, iopub, op, result,
                                     clock, files >>
                ELSE IF cells[i].type # "code"
                THEN /\ ret' = Ret("execute_cell", d, 200, "", <<>>, <<>>)
                     /\ effects' = <<>>
                     /\ UNCHANGED << notebooks, kernel_sessions, iopub, op, result,
                                     clock, files >>
                ELSE /\ count < MaxExec
                     /\ notebooks' = [notebooks EXCEPT
                            ![d].cells[i] = r.cell,
                            ![d].updated_at = IF r.stamped THEN UtcNow ELSE @]
                     /\ clock' = IF r.stamped THEN UtcNow ELSE clock
                     /\ kernel_sessions' =
                            [kernel_sessions EXCEPT ![d].execution_count = r.count]
                     /\ iopub' = [iopub EXCEPT ![d] = r.stale]
                     /\ files' = Saved(d, r.returns /\ ~r.raised)
                     /\ effects' = r.effects
                     /\ IF r.returns
                        THEN /\ result' = IF r.res = None THEN result ELSE r.res
                             /\ ret' = IF r.raised
                                       THEN Ret("execute_cell", d, 500,
                                                IF fault = "send"
                                                THEN "Execution failed: send"
                                                ELSE "Execution failed: save",
                                                cells, << i >>)
                                       ELSE Ret("execute_cell", d, 200, "", cells, << i >>)
                             /\ UNCHANGED op
                        ELSE /\ op' = [kind |-> "execute_cell", doc |-> d, idx |-> i]
                             /\ UNCHANGED << result, ret >>
    /\ UNCHANGED << nextDoc, nextCell >>
    /\ UNCHANGED << pumpVars, shVars, codVars, stVars >>

\* execute_all_cells
ExecuteAllCells(d, failAt, fault) ==
    /\ op = NoOp
    /\ IF d \notin DOMAIN notebooks
       THEN /\ ret' = Ret("execute_all_cells", d, 404, "Notebook not found",
                          <<>>, <<>>)
            /\ effects' = <<>>
            /\ UNCHANGED << notebooks, kernel_sessions, iopub, op, result, clock, files >>
       ELSE LET cells == notebooks[d].cells
            IN  IF CodeCells(cells) = {}
                THEN /\ ret' = Ret("execute_all_cells", d, 200, "", cells, <<>>)
                     /\ effects' = <<>>
                     /\ UNCHANGED << notebooks, kernel_sessions, iopub, op, result,
                                     clock, files >>
                ELSE IF d \notin DOMAIN kernel_sessions
                THEN /\ ret' = Ret("execute_all_cells", d, 500,
                                   "Kernel session not found", cells, <<>>)
                     /\ effects' = <<>>
                     /\ UNCHANGED << notebooks, kernel_sessions, iopub, op, result,
                                     clock, files >>
                ELSE LET count == kernel_sessions[d].execution_count
                         r == RunAll(cells, 1, count, iopub[d], <<>>, result, failAt, fault)
                     IN  /\ count + Cardinality(CodeCells(cells)) <= MaxExec
                         /\ failAt \in {0} \cup CodeCells(cells)
                         /\ failAt = 0 <=> fault = "none"
                         /\ notebooks' = [notebooks EXCEPT
                                ![d].cells = r.cells,
                                ![d].updated_at = IF r.ticks > 0 THEN clock + r.ticks ELSE @]
                         /\ clock' = clock + r.ticks
                         /\ kernel_sessions' =
                                [kernel_sessions EXCEPT ![d].execution_count = r.count]
                         /\ iopub' = [iopub EXCEPT ![d] = r.stale]
                         /\ files' = Saved(d, r.saved)
                         /\ effects' = r.effects
                         /\ IF r.stuck = 0
                            THEN /\ result' = r.res
                                 /\ ret' = Ret("execute_all_cells", d, r.code,
                                               IF r.code = 200 THEN ""
                                               ELSE IF fault = "send"
                                               THEN "Execution failed: send"
                                               ELSE "Execution failed: save",
                                               cells, r.executed)
                                 /\ UNCHANGED op
                            ELSE /\ op' = [kind |-> "execute_all_cells", doc |-> d,
                                           idx |-> r.stuck]
                                 /\ result' = r.res
                                 /\ UNCHANGED ret
    /\ UNCHANGED << nextDoc, nextCell >>
    /\ UNCHANGED << pumpVars, shVars, codVars, stVars >>

\* A faulty clear that resets status and error and keeps the results.
ClearedStatusOnly(cell) == [cell EXCEPT !.error = None, !.status = "idle"]

\* clear_cell_output and clear_all_outputs: the cell with its outputs cleared.
Cleared(cell) ==
    [cell EXCEPT !.outputs = <<>>, !.execution_count = None, !.error = None,
                 !.status = "idle"]

\* clear_cell_output
ClearCellOutput(d, cell_id, saveOK) ==
    /\ op = NoOp
    /\ IF d \notin DOMAIN notebooks
       THEN /\ ret' = Ret("clear_cell_output", d, 404, "Notebook not found", <<>>, <<>>)
            /\ effects' = <<>>
            /\ UNCHANGED << notebooks, files >>
       ELSE LET cells == notebooks[d].cells
                i == CellIndex(cells, cell_id)
            IN  IF i = 0
                THEN /\ ret' = Ret("clear_cell_output", d, 404, "Cell not found",
                                   <<>>, <<>>)
                     /\ effects' = <<>>
                     /\ UNCHANGED << notebooks, files >>
                ELSE /\ notebooks' = [notebooks EXCEPT ![d].cells[i] = Cleared(@)]
                     /\ files' = Saved(d, saveOK)
                     /\ effects' = << SaveEffect(saveOK) >>
                     /\ ret' = IF saveOK
                               THEN Ret("clear_cell_output", d, 200, "", <<>>, << i >>)
                               ELSE Ret("clear_cell_output", d, 500,
                                        "Internal Server Error", <<>>, << i >>)
    /\ UNCHANGED << kernel_sessions, nextDoc, nextCell, iopub, op, result, clock >>
    /\ UNCHANGED << pumpVars, shVars, codVars, stVars >>

\* clear_all_outputs
ClearAllOutputs(d, saveOK) ==
    /\ op = NoOp
    /\ IF d \notin DOMAIN notebooks
       THEN /\ ret' = Ret("clear_all_outputs", d, 404, "Notebook not found", <<>>, <<>>)
            /\ effects' = <<>>
            /\ UNCHANGED << notebooks, files >>
       ELSE LET cells == notebooks[d].cells
            IN  /\ notebooks' = [notebooks EXCEPT ![d].cells =
                        [i \in 1 .. Len(cells) |->
                            IF cells[i].type = "code" THEN Cleared(cells[i])
                            ELSE cells[i]]]
                /\ files' = Saved(d, saveOK)
                /\ effects' = << SaveEffect(saveOK) >>
                /\ ret' = IF saveOK
                          THEN Ret("clear_all_outputs", d, 200, "", cells, <<>>)
                          ELSE Ret("clear_all_outputs", d, 500,
                                   "Internal Server Error", cells, <<>>)
    /\ UNCHANGED << kernel_sessions, nextDoc, nextCell, iopub, op, result, clock >>
    /\ UNCHANGED << pumpVars, shVars, codVars, stVars >>

\* A faulty shutdown that lets the exception of a failing shutdown out.
ShutdownReturnsIfOK(shutdown) == shutdown = "stops"

\* KernelSession.shutdown returns whether stopping the kernel worked or not:
\* "except Exception: pass".
ShutdownReturns(shutdown) == TRUE

\* delete_notebook: the session is shut down and unregistered, the notebook
\* unregistered, the artifact unlinked if it exists; only unlink can raise.
DeleteNotebook(d, shutdown, unlinkOK) ==
    /\ op = NoOp
    /\ IF d \in DOMAIN kernel_sessions /\ ~ShutdownReturns(shutdown)
       THEN /\ effects' = << ShutdownEffect(shutdown) >>
            /\ ret' = Ret("delete_notebook", d, 500, "Internal Server Error", <<>>, <<>>)
            /\ UNCHANGED << kernel_sessions, iopub, notebooks, files >>
       ELSE /\ kernel_sessions' = Without(kernel_sessions, d)
            /\ iopub' = Without(iopub, d)
            /\ notebooks' = Without(notebooks, d)
            /\ files' = IF unlinkOK THEN files \ {d} ELSE files
            /\ effects' =
                    (IF d \in DOMAIN kernel_sessions
                     THEN << ShutdownEffect(shutdown), "del kernel_sessions" >>
                     ELSE <<>>)
                 \o (IF d \in DOMAIN notebooks THEN << "del notebooks" >> ELSE <<>>)
                 \o (IF d \in files THEN << UnlinkEffect(unlinkOK) >> ELSE <<>>)
            /\ ret' = IF d \in files /\ ~unlinkOK
                      THEN Ret("delete_notebook", d, 500, "Internal Server Error",
                               <<>>, <<>>)
                      ELSE Ret("delete_notebook", d, 200, "", <<>>, <<>>)
    /\ UNCHANGED << nextDoc, nextCell, op, result, clock >>
    /\ UNCHANGED << pumpVars, shVars, codVars, stVars >>

\* A faulty execute_code that shuts the session down after the try block
\* instead of in a finally clause: not when execute raised.
AfterTry(raised, shutdown) ==
    IF raised THEN <<>> ELSE << ShutdownEffect(shutdown) >>

\* execute_code: "finally: temp_session.shutdown()", whether the try block
\* raised or not.
Finally(raised, shutdown) == << ShutdownEffect(shutdown) >>

\* execute_code (and the handler of /code/execute, which turns every
\* exception into a 500): a session of its own on a fresh kernel, one execute,
\* shutdown in the finally clause.
ExecuteCode(content, kernel_name, launchOK, info, sendOK, shutdown) ==
    /\ op = NoOp
    /\ LET p == RunExecute(Script(content, 1))
       IN  IF ~KernelStarts(kernel_name, launchOK)
           THEN /\ ret' = Ret("execute_code", 0, 500, "Failed to start kernel", <<>>, <<>>)
                /\ effects' = <<>>
                /\ UNCHANGED << op, result >>
           ELSE IF KernelSession(kernel_name, info) = None
           THEN /\ ret' = Ret("execute_code", 0, 500, "Failed to start kernel", <<>>, <<>>)
                /\ effects' = << "start_kernel", info >>
                /\ UNCHANGED << op, result >>
           ELSE IF ~sendOK
           THEN /\ ret' = Ret("execute_code", 0, 500, "send", <<>>, <<>>)
                /\ effects' = << "start_kernel", info, "client.execute failed" >>
                                  \o Finally(TRUE, shutdown)
                /\ UNCHANGED << op, result >>
           ELSE IF p.returns
           THEN /\ ret' = Ret("execute_code", 0, 200, "", <<>>, <<>>)
                /\ result' = Some(ExecResult(1, p.outputs, p.error))
                /\ effects' = << "start_kernel", info, "client.execute" >>
                                  \o Finally(FALSE, shutdown)
                /\ UNCHANGED op
           ELSE /\ op' = [kind |-> "execute_code", doc |-> 0, idx |-> 0]
                /\ effects' = << "start_kernel", info, "client.execute" >>
                /\ UNCHANGED << result, ret >>
    /\ UNCHANGED << notebooks, kernel_sessions, nextDoc, nextCell, iopub, clock, files >>
    /\ UNCHANGED << pumpVars, shVars, codVars, stVars >>

\* The service with one notebook created on an installed kernel and saved.
InitCreated ==
    /\ notebooks = With(<< >>, 1, Notebook(1, "python3", 1))
    /\ kernel_sessions = With(<< >>, 1, KernelSession("python3", "kernel_info replied")[1])
    /\ nextDoc = 2
    /\ nextCell = 1
    /\ iopub = With(<< >>, 1, <<>>)
    /\ op = NoOp
    /\ result = NoResult
    /\ ret = Ret("create_notebook", 1, 200, "", <<>>, <<>>)
    /\ clock = 1
    /\ files = {1}
    /\ effects = << "start_kernel", "kernel_info replied", SaveEffect(TRUE) >>

(***************************************************************************)
(* notebook.py: the Jupyter format of a notebook                           *)
(***************************************************************************)
\* The characters of a cell's text: a letter, a blank and the line
\* terminators "\n" (LF) and "\r" (CR).
Chars == {"a", " ", "LF", "CR"}

\* The texts of at most MaxText characters.
Texts == UNION {[1 .. n -> Chars] : n \in 0 .. MaxText}

\* A cell's metadata dict: empty, or with one entry.
Metadatas == {{}, {"collapsed"}}

\* str.splitlines on s from its i-th character on, cur being the line so far:
\* a line ends after "\n", after "\r\n" and after a "\r" that no "\n" follows;
\* the terminator stays in the line when keepends is true.  A text that does
\* not end in a terminator gives a last line without one; the empty text gives
\* no line.
RECURSIVE SplitFrom(_, _, _, _)
SplitFrom(s, i, cur, keepends) ==
    IF i > Len(s) THEN (IF cur = <<>> THEN <<>> ELSE << cur >>)
    ELSE IF s[i] = "LF"
    THEN << IF keepends THEN Append(cur, "LF") ELSE cur >>
            \o SplitFrom(s, i + 1, <<>>, keepends)
    ELSE IF s[i] = "CR" /\ i < Len(s) /\ s[i + 1] = "LF"
    THEN << IF keepends THEN cur \o << "CR", "LF" >> ELSE cur >>
            \o SplitFrom(s, i + 2, <<>>, keepends)
    ELSE IF s[i] = "CR"
    THEN << IF keepends THEN Append(cur, "CR") ELSE cur >>
            \o SplitFrom(s, i + 1, <<>>, keepends)
    ELSE SplitFrom(s, i + 1, Append(cur, s[i]), keepends)

\* A faulty encoder that splits without keeping the terminators.
SplitLinesDropEnds(s) == SplitFrom(s, 1, <<>>, FALSE)

\* cell.content.splitlines(True)
SplitLines(s) == SplitFrom(s, 1, <<>>, TRUE)

\* "".join(lines)
RECURSIVE Join(_)
Join(lines) == IF lines = <<>> THEN <<>> ELSE Head(lines) \o Join(Tail(lines))

\* dict.get on a key that may be absent (None: absent; <<v>>: present, v).
Get(entry, default) == IF entry = None THEN default ELSE entry[1]

\* _to_jupyter_format, one cell: outputs and execution_count are keys of code
\* cells only.
ToJupyterCell(cell) ==
    [cell_type |-> cell.type,
     metadata |-> cell.metadata,
     source |-> SplitLines(cell.content),
     outputs |-> IF cell.type = "code" THEN Some(cell.outputs) ELSE None,
     execution_count |-> IF cell.type = "code" THEN Some(cell.execution_count) ELSE None]

\* _to_jupyter_format
ToJupyterFormat(nb) ==
    [kernelspec |-> Some(nb.kernel_name),
     cells |-> [i \in 1 .. Len(nb.cells) |-> ToJupyterCell(nb.cells[i])]]

\* A faulty decoder that takes outputs and execution_count from every record.
FromJupyterCellKeepsAll(cell_data, id) ==
    [NotebookCell(id, cell_data.cell_type, Join(cell_data.source)) EXCEPT
        !.metadata = cell_data.metadata,
        !.outputs = Get(cell_data.outputs, <<>>),
        !.execution_count = Get(cell_data.execution_count, None)]

\* _from_jupyter_format, one cell record: a new NotebookCell (its id, status
\* and error are the defaults).
FromJupyterCell(cell_data, id) ==
    [NotebookCell(id, cell_data.cell_type, Join(cell_data.source)) EXCEPT
        !.metadata = cell_data.metadata,
        !.outputs = IF cell_data.cell_type = "code"
                    THEN Get(cell_data.outputs, <<>>) ELSE <<>>,
        !.execution_count = IF cell_data.cell_type = "code"
                            THEN Get(cell_data.execution_count, None) ELSE None]

\* _from_jupyter_format: the cells get fresh ids (0 - i stands for the uuid4
\* of the i-th), the notebook the id it is loaded as.
FromJupyterFormat(data, notebook_id) ==
    [Notebook(notebook_id, Get(data.kernelspec, "python3"), UtcNow) EXCEPT
        !.cells = [i \in 1 .. Len(data.cells) |-> FromJupyterCell(data.cells[i], 0 - i)]]

\* The cells a notebook of the service may hold, text, metadata and results
\* of execution varying: a code cell never executed, executed without or with
\* an error; a markdown or raw cell as add_cell made it.
TextCells ==
    {[NotebookCell(1, type, text) EXCEPT !.metadata = metadata] :
        type \in CellType, text \in Texts, metadata \in Metadatas}
StoredCells ==
    TextCells
       \cup {[c EXCEPT !.execution_count = Some(1), !.outputs = << "stream" >>,
                       !.status = "complete"] : c \in {x \in TextCells : x.type = "code"}}
       \cup {[c EXCEPT !.execution_count = Some(1), !.status = "error",
                       !.error = GuestError] : c \in {x \in TextCells : x.type = "code"}}

\* A second cell of each type.
SecondCells == {NotebookCell(2, type, << "a", "LF", " " >>) : type \in CellType}

\* The notebooks the codec is given: no cell, one cell, two cells.
StoredNotebooks ==
    {[Notebook(1, "python3", 1) EXCEPT !.cells = cells] :
        cells \in {<<>>} \cup {<< c >> : c \in StoredCells}
                   \cup {<< c, c2 >> : c \in StoredCells, c2 \in SecondCells}}

\* Cell records as a file may hold them, whoever wrote it: any type, with or
\* without the keys outputs and execution_count, whatever they hold.
FileCells ==
    [cell_type : CellType,
     metadata : Metadatas,
     source : {<<>>, << << "a", "LF" >>, << " " >> >>},
     outputs : {None, Some(<<>>), Some(<< "stream" >>)},
     execution_count : {None, Some(None), Some(Some(1))}]

\* A second record of each type, with stale results.
SecondFileCells ==
    [cell_type : CellType, metadata : {{}}, source : {<< << "a" >> >>},
     outputs : {Some(<< "stream" >>)}, execution_count : {Some(Some(1))}]

\* The files load_notebook may find.
Files ==
    [kernelspec : {None, Some("python3")},
     cells : {<< c >> : c \in FileCells}
                \cup {<< c, c2 >> : c \in FileCells, c2 \in SecondFileCells}]

\* The service is not running: no handler is called.
Offline == [kind |-> "offline", doc |-> 0, idx |-> 0]
InitOffline ==
    /\ notebooks = << >>
    /\ kernel_sessions = << >>
    /\ nextDoc = 1
    /\ nextCell = 1
    /\ iopub = << >>
    /\ op = Offline
    /\ result = NoResult
    /\ ret = Ret("none", 0, 200, "", <<>>, <<>>)
    /\ clock = 0
    /\ files = {}
    /\ effects = <<>>

\* The codec is not in use.
InitCodec ==
    /\ notebook = None
    /\ notebook_data = None
    /\ loaded = None

\* The codec is given a notebook to encode, or a file's content to decode.
InitCodecInput ==
    /\ loaded = None
    /\ \/ notebook \in {Some(nb) : nb \in StoredNotebooks} /\ notebook_data = None
       \/ notebook = None /\ notebook_data \in {Some(data) : data \in Files}

\* _save_notebook up to the write: notebook_data = _to_jupyter_format(notebook).
Encode ==
    /\ notebook # None
    /\ notebook_data' = Some(ToJupyterFormat(notebook[1]))
    /\ UNCHANGED << notebook, loaded >>
    /\ UNCHANGED << pumpVars, nbVars, shVars, stVars >>

\* load_notebook after the read: _from_jupyter_format(notebook_data, id).
Decode ==
    /\ notebook_data # None
    /\ loaded' = Some(FromJupyterFormat(notebook_data[1], 1))
    /\ UNCHANGED << notebook, notebook_data >>
    /\ UNCHANGED << pumpVars, nbVars, shVars, stVars >>

(***************************************************************************)
(* bash.py: the shell process, as its pipes show it                        *)
(***************************************************************************)
\* _BashSession._sentinel
Sentinel == "<<exit>>"

\* A line of output is the sequence of its words; "sentinel in line" is
\* "one of its words is the sentinel".
HasSentinel(line) == \E i \in 1 .. Len(line) : line[i] = Sentinel

\* The line "echo %errorlevel%" prints, and the one "echo <<exit>>" prints.
ErrorLevelLine == << "0" >>
SentinelLine == << Sentinel >>

\* The commands run is called with, by what the shell does with them: the
\* lines they print, and whether they end the shell ("... & exit").
EchoA == [out |-> << << "A" >> >>, exits |-> FALSE]
EchoB == [out |-> << << "B" >> >>, exits |-> FALSE]
TypeExit == [out |-> << << "x", Sentinel >>, << "T" >> >>, exits |-> TRUE]
Commands == {EchoA, EchoB, TypeExit}

\* What cmd.exe does with the line run writes, "{command} & echo %errorlevel%
\* & echo <<exit>>": the lines it prints, in order, "EXIT" where it ends.
ShellWork(command) ==
    IF command.exits
    THEN [i \in 1 .. Len(command.out) + 1 |->
            IF i <= Len(command.out) THEN command.out[i] ELSE << "EXIT" >>]
    ELSE command.out \o << ErrorLevelLine, SentinelLine >>

Callers == {1, 2}
SessionIds == 1 .. MaxCalls

\* _BashSession()
NewSession == [started |-> FALSE, timed_out |-> FALSE]

\* The process create_subprocess_shell returns: running (returncode is
\* None), not asked to terminate, nothing written to its stdin, nothing to
\* print, both pipes empty and nobody waiting on them.
NewProcess ==
    [returncode |-> None, signalled |-> FALSE, written |-> 0, todo |-> <<>>,
     stdout |-> <<>>, wOut |-> 0, wErr |-> 0]

\* A caller that is not inside a call; outcome is how its last call ended,
\* error the return code a "tool must be restarted" result reports.
NoCall == [pc |-> "done", kind |-> "none", sess |-> 0, cmd |-> None,
           output |-> <<>>, outcome |-> "none", error |-> None]

\* A call ends: with a CLIResult it carries the output, otherwise nothing.
Finish(k, outcome) ==
    [k EXCEPT !.pc = "done", !.outcome = outcome,
              !.output = IF outcome = "CLIResult" THEN @ ELSE <<>>]

InitShell ==
    /\ tool_session = 0
    /\ sessions = << >>
    /\ procs = << >>
    /\ nextSession = 1
    /\ ncalls = 0
    /\ call = [c \in Callers |-> NoCall]

(***************************************************************************)
(* _BashSession.run, from one suspension to the next.  A coroutine runs    *)
(* until it awaits something that is not ready; the steps below are these  *)
(* stretches.  They return the process and the call as the stretch leaves  *)
(* them.                                                                   *)
(***************************************************************************)
\* "error = await self._process.stderr.read()": returns at end of file only;
\* a second coroutine waiting on the same reader gets a RuntimeError.
ReadStderr(p, k, c) ==
    IF p.returncode # None THEN [proc |-> p, call |-> Finish(k, "CLIResult")]
    ELSE IF p.wErr # 0 THEN [proc |-> p, call |-> Finish(k, "RuntimeError")]
    ELSE [proc |-> [p EXCEPT !.wErr = c], call |-> [k EXCEPT !.pc = "errwait"]]

\* Whether the read loop breaks on line ("if self._sentinel in line_str").
LoopBreaks(line) == HasSentinel(line)

\* The read loop over the lines the pipe holds: up to the first line the
\* loop breaks on, then stderr; without one, all of them, then end of file
\* (break) or a wait for more.
ReadLoop(p, k, c) ==
    LET buf == p.stdout
        hits == {i \in 1 .. Len(buf) : LoopBreaks(buf[i])}
    IN  IF hits # {}
        THEN LET i == CHOOSE x \in hits : \A y \in hits : x <= y
             IN  ReadStderr([p EXCEPT !.stdout = SubSeq(buf, i + 1, Len(buf))],
                            [k EXCEPT !.output = @ \o SubSeq(buf, 1, i - 1)], c)
        ELSE LET p1 == [p EXCEPT !.stdout = <<>>]
                 k1 == [k EXCEPT !.output = @ \o buf]
             IN  IF p.returncode # None THEN ReadStderr(p1, k1, c)
                 ELSE IF p.wOut # 0
                 THEN [proc |-> p1, call |-> Finish(k1, "RuntimeError")]
                 ELSE [proc |-> [p1 EXCEPT !.wOut = c],
                       call |-> [k1 EXCEPT !.pc = "readwait"]]

\* A faulty run that does not look at _timed_out.
RefusalIgnoresTimeout(s) ==
    IF ~sessions[s].started THEN "ToolError: not started"
    ELSE IF procs[s].returncode # None THEN "must be restarted"
    ELSE "no"

\* A faulty run that does not look at the process's return code.
RefusalIgnoresExit(s) ==
    IF ~sessions[s].started THEN "ToolError: not started"
    ELSE IF sessions[s].timed_out THEN "ToolError: timed out"
    ELSE "no"

\* A faulty run that takes a session that never started for one that timed out.
RefusalMistakesUnstarted(s) ==
    IF ~sessions[s].started THEN "ToolError: timed out"
    ELSE IF procs[s].returncode # None THEN "must be restarted"
    ELSE IF sessions[s].timed_out THEN "ToolError: timed out"
    ELSE "no"

\* Whether run refuses the call before writing anything, and how.
Refusal(s) ==
    IF ~sessions[s].started THEN "ToolError: not started"
    ELSE IF procs[s].returncode # None THEN "must be restarted"
    ELSE IF sessions[s].timed_out THEN "ToolError: timed out"
    ELSE "no"

\* run(command) on session s, up to its first suspension (drain() returns at
\* once: one command line stays below the pipe's high-water mark).
RunEnter(c, s, command, k) ==
    IF Refusal(s) # "no"
    THEN /\ call' = [call EXCEPT ![c] =
                Finish([k EXCEPT !.sess = s,
                                 !.error = IF Refusal(s) = "must be restarted"
                                           THEN procs[s].returncode ELSE None],
                       Refusal(s))]
         /\ UNCHANGED procs
    ELSE LET p == [procs[s] EXCEPT !.written = @ + 1,
                                   !.todo = @ \o ShellWork(command)]
             r == ReadLoop(p, [k EXCEPT !.sess = s, !.output = <<>>], c)
         IN  /\ procs' = [procs EXCEPT ![s] = r.proc]
             /\ call' = [call EXCEPT ![c] = r.call]

\* The process ends with a return code (0 after "exit", 1 after
\* terminate()): both pipes reach end of file, which wakes their waiters.
Ended(p, returncode) ==
    [p EXCEPT !.returncode = Some(returncode), !.todo = <<>>, !.wOut = 0, !.wErr = 0]

\* stop(): "self._process.terminate()" asks the process to end (SIGTERM, or
\* TerminateProcess on the shell that was spawned); stop neither waits for it
\* nor kills it.
Terminate(p) == [p EXCEPT !.signalled = TRUE]

\* The calls after the waiters on p's pipes were woken.
Woken(calls, out, err) ==
    [c \in Callers |->
        IF c = out THEN [calls[c] EXCEPT !.pc = "readrun"]
        ELSE IF c = err THEN [calls[c] EXCEPT !.pc = "errrun"]
        ELSE calls[c]]

(***************************************************************************)
(* BashTool.__call__                                                       *)
(***************************************************************************)
\* __call__(restart=True), up to "await self._session.start()".  dies: the
\* process ends as soon as stop() asks it to.
CallRestart(c, dies) ==
    /\ call[c].pc = "done"
    /\ ncalls < MaxCalls
    /\ ncalls' = ncalls + 1
    /\ LET s == tool_session
           k == [NoCall EXCEPT !.kind = "restart"]
       IN  IF s # 0 /\ ~sessions[s].started
           THEN \* stop() raises "Session has not started."
                /\ call' = [call EXCEPT ![c] = Finish(k, "ToolError: not started")]
                /\ UNCHANGED << tool_session, sessions, procs, nextSession >>
           ELSE /\ IF s # 0 /\ procs[s].returncode = None
                   THEN \* stop() terminates the process
                        /\ procs' = [procs EXCEPT ![s] =
                                        IF dies THEN Ended(Terminate(@), 1)
                                        ELSE Terminate(@)]
                        /\ call' = [(IF dies
                                     THEN Woken(call, procs[s].wOut, procs[s].wErr)
                                     ELSE call) EXCEPT
                                       ![c] = [k EXCEPT !.pc = "starting", !.sess = nextSession]]
                   ELSE /\ call' = [call EXCEPT
                                       ![c] = [k EXCEPT !.pc = "starting", !.sess = nextSession]]
                        /\ UNCHANGED procs
                /\ tool_session' = nextSession
                /\ sessions' = With(sessions, nextSession, NewSession)
                /\ nextSession' = nextSession + 1
    /\ UNCHANGED << pumpVars, nbVars, codVars, stVars >>

\* __call__(command), up to its first suspension.
CallCommand(c, command) ==
    /\ call[c].pc = "done"
    /\ ncalls < MaxCalls
    /\ ncalls' = ncalls + 1
    /\ LET k == [NoCall EXCEPT !.kind = "command", !.cmd = command]
       IN  IF tool_session = 0
           THEN /\ tool_session' = nextSession
                /\ sessions' = With(sessions, nextSession, NewSession)
                /\ nextSession' = nextSession + 1
                /\ call' = [call EXCEPT ![c] = [k EXCEPT !.pc = "starting",
                                                         !.sess = nextSession]]
                /\ UNCHANGED procs
           ELSE /\ IF command = None
                   THEN /\ call' = [call EXCEPT ![c] = Finish(k, "ToolError: no command")]
                        /\ UNCHANGED procs
                   ELSE RunEnter(c, tool_session, command[1], k)
                /\ UNCHANGED << tool_session, sessions, nextSession >>
    /\ UNCHANGED << pumpVars, nbVars, codVars, stVars >>

\* create_subprocess_shell completes and start() returns, or it raises; the
\* call goes on up to its next suspension.
StartDone(c, ok) ==
    /\ call[c].pc = "starting"
    /\ LET s == call[c].sess
           k == call[c]
       IN  IF ~ok
           THEN /\ call' = [call EXCEPT ![c] = Finish(k, "OSError")]
                /\ UNCHANGED << sessions, procs >>
           ELSE /\ sessions' = [sessions EXCEPT ![s].started = TRUE]
                /\ IF k.kind = "restart"
                   THEN /\ procs' = With(procs, s, NewProcess)
                        /\ call' = [call EXCEPT ![c] = Finish(k, "restarted")]
                   ELSE IF k.cmd = None
                   THEN /\ procs' = With(procs, s, NewProcess)
                        /\ call' = [call EXCEPT ![c] = Finish(k, "ToolError: no command")]
                   ELSE \* run on self._session, which is s: a restart in
                        \* between fails in stop() and replaces nothing
                        LET p == [NewProcess EXCEPT !.written = 1,
                                                    !.todo = ShellWork(k.cmd[1])]
                            r == ReadLoop(p, k, c)
                        IN  /\ procs' = With(procs, s, r.proc)
                            /\ call' = [call EXCEPT ![c] = r.call]
    /\ UNCHANGED << tool_session, nextSession, ncalls >>
    /\ UNCHANGED << pumpVars, nbVars, codVars, stVars >>

\* A caller woken in readline or in stderr.read() runs on.
Resume(c) ==
    /\ call[c].pc \in {"readrun", "errrun"}
    /\ LET s == call[c].sess
           r == IF call[c].pc = "readrun" THEN ReadLoop(procs[s], call[c], c)
                ELSE ReadStderr(procs[s], call[c], c)
       IN  /\ procs' = [procs EXCEPT ![s] = r.proc]
           /\ call' = [call EXCEPT ![c] = r.call]
    /\ UNCHANGED << tool_session, sessions, nextSession, ncalls >>
    /\ UNCHANGED << pumpVars, nbVars, codVars, stVars >>

\* asyncio.timeout expires while the call is suspended in the read loop:
\* "except asyncio.TimeoutError".
TimeoutFire(c) ==
    /\ call[c].pc \in {"readwait", "readrun"}
    /\ LET s == call[c].sess
       IN  /\ sessions' = [sessions EXCEPT ![s].timed_out = TRUE]
           /\ procs' = [procs EXCEPT ![s].wOut = IF @ = c THEN 0 ELSE @]
           /\ call' = [call EXCEPT ![c] = Finish(@, "ToolError: timed out")]
    /\ UNCHANGED << tool_session, nextSession, ncalls >>
    /\ UNCHANGED << pumpVars, nbVars, codVars, stVars >>

\* The shell prints its next line, or ends.
ShellEmit(s) ==
    /\ s \in DOMAIN procs
    /\ procs[s].returncode = None
    /\ procs[s].todo # <<>>
    /\ LET p == procs[s]
           line == Head(p.todo)
       IN  IF line = << "EXIT" >>
           THEN /\ procs' = [procs EXCEPT ![s] = Ended(p, 0)]
                /\ call' = Woken(call, p.wOut, p.wErr)
           ELSE /\ procs' = [procs EXCEPT ![s] = [p EXCEPT !.todo = Tail(@),
                                                           !.stdout = Append(@, line),
                                                           !.wOut = 0]]
                /\ call' = Woken(call, p.wOut, 0)
    /\ UNCHANGED << tool_session, sessions, nextSession, ncalls >>
    /\ UNCHANGED << pumpVars, nbVars, codVars, stVars >>

\* A process that was asked to terminate ends later.  Whether and when it
\* does is the process's affair: it may handle or ignore the signal, and what
\* it started may live on with its pipes.
ProcessEnds(s) ==
    /\ s \in DOMAIN procs
    /\ procs[s].returncode = None
    /\ procs[s].signalled
    /\ procs' = [procs EXCEPT ![s] = Ended(@, 1)]
    /\ call' = Woken(call, procs[s].wOut, procs[s].wErr)
    /\ UNCHANGED << tool_session, sessions, nextSession, ncalls >>
    /\ UNCHANGED << pumpVars, nbVars, codVars, stVars >>

(***************************************************************************)
(* NotebookService at its suspension points                                *)
(*                                                                         *)
(* A handler runs on the event loop without interruption up to "await      *)
(* self._save_notebook(notebook)".  _save_notebook encodes the notebook at *)
(* once, hands write_file to the default executor and suspends the handler *)
(* until the job has run; meanwhile the loop runs other handlers.  The     *)
(* executor is a pool of threads: its jobs run in any order.  Here every   *)
(* kernel starts, replies and shuts down, and every write and unlink       *)
(* succeeds.                                                               *)
(***************************************************************************)
\* Executor jobs that may be pending at once.
MaxJobs == 2

InitStore ==
    /\ disk = << >>
    /\ writes = {}

\* _to_jupyter_format on a cell of the service, whose content is the name of
\* a text: source holds the name where the file holds the text's lines.
ToJupyterNamedCell(cell) ==
    [ToJupyterCell([cell EXCEPT !.content = << >>]) EXCEPT !.source = cell.content]

\* _to_jupyter_format on a notebook of the service.
ToJupyterNamed(nb) ==
    [kernelspec |-> Some(nb.kernel_name),
     cells |-> [i \in 1 .. Len(nb.cells) |-> ToJupyterNamedCell(nb.cells[i])]]

\* A handler on notebook d is suspended in _save_notebook.
Saving(d) == \E w \in writes : w.doc = d

\* _save_notebook up to its await: notebook_data is computed now, write_file
\* closes over it and over the path.
SaveJob(job, name, nb) ==
    [job |-> job, op |-> name, doc |-> nb.id, data |-> ToJupyterNamed(nb)]

\* run_in_executor(None, write_file) for handler name, after the registries
\* became nbs.
Submit(name, nbs, d) ==
    /\ \E job \in 1 .. MaxJobs :
          /\ \A w \in writes : w.job # job
          /\ \A j \in 1 .. job - 1 : \E w \in writes : w.job = j
          /\ writes' = writes \cup {SaveJob(job, name, nbs[d])}
    /\ UNCHANGED << disk, files >>

\* create_notebook up to its await.
CreateNotebookAwaits ==
    /\ op = NoOp
    /\ nextDoc <= MaxDocs
    /\ nextDoc' = nextDoc + 1
    /\ notebooks' = With(notebooks, nextDoc, Notebook(nextDoc, "python3", UtcNow))
    /\ clock' = UtcNow
    /\ kernel_sessions' = With(kernel_sessions, nextDoc,
                               KernelSession("python3", "kernel_info replied")[1])
    /\ iopub' = With(iopub, nextDoc, << >>)
    /\ Submit("create_notebook", notebooks', nextDoc)
    /\ UNCHANGED << nextCell, op, result, ret, effects >>
    /\ UNCHANGED << pumpVars, shVars, codVars >>

\* A handler that raises or returns without reaching _save_notebook.
Returns(name, d, code, detail) ==
    /\ ret' = Ret(name, d, code, detail, <<>>, <<>>)
    /\ UNCHANGED << notebooks, kernel_sessions, nextDoc, nextCell, iopub, op, result,
                    clock, files, effects >>
    /\ UNCHANGED stVars

\* add_cell up to its await.
AddCellAwaits(d, in) ==
    /\ op = NoOp
    /\ IF d \notin DOMAIN notebooks
       THEN Returns("add_cell", d, 404, "Notebook not found")
       ELSE /\ nextCell <= MaxCells
            /\ nextCell' = nextCell + 1
            /\ notebooks' = [notebooks EXCEPT
                    ![d].cells = Appended(@, NotebookCell(nextCell, in.type, in.content)),
                    ![d].updated_at = UtcNow]
            /\ clock' = UtcNow
            /\ Submit("add_cell", notebooks', d)
            /\ UNCHANGED << kernel_sessions, nextDoc, iopub, op, result, ret, effects >>
    /\ UNCHANGED << pumpVars, shVars, codVars >>

\* execute_cell up to its await: session.execute runs to its end on the loop.
ExecuteCellAwaits(d, cell_id) ==
    /\ op = NoOp
    /\ IF d \notin DOMAIN notebooks
       THEN Returns("execute_cell", d, 404, "Notebook not found")
       ELSE IF d \notin DOMAIN kernel_sessions
       THEN Returns("execute_cell", d, 500, "Kernel session not found")
       ELSE LET cells == notebooks[d].cells
                i == CellIndex(cells, cell_id)
                count == kernel_sessions[d].execution_count
                r == RunCell(cells[i], count, iopub[d], "none")
            IN  IF i = 0
                THEN Returns("execute_cell", d, 404, "Cell not found")
                ELSE IF cells[i].type # "code"
                THEN Returns("execute_cell", d, 200, "")
                ELSE /\ count < MaxExec
                     /\ r.returns
                     /\ notebooks' = [notebooks EXCEPT ![d].cells[i] = r.cell,
                                                       ![d].updated_at = UtcNow]
                     /\ clock' = UtcNow
                     /\ kernel_sessions' =
                            [kernel_sessions EXCEPT ![d].execution_count = r.count]
                     /\ iopub' = [iopub EXCEPT ![d] = r.stale]
                     /\ result' = r.res
                     /\ Submit("execute_cell", notebooks', d)
                     /\ UNCHANGED << nextDoc, nextCell, op, ret, effects >>
    /\ UNCHANGED << pumpVars, shVars, codVars >>

\* clear_cell_output up to its await.
ClearCellOutputAwaits(d, cell_id) ==
    /\ op = NoOp
    /\ IF d \notin DOMAIN notebooks
       THEN Returns("clear_cell_output", d, 404, "Notebook not found")
       ELSE LET i == CellIndex(notebooks[d].cells, cell_id)
            IN  IF i = 0
                THEN Returns("clear_cell_output", d, 404, "Cell not found")
                ELSE /\ notebooks' = [notebooks EXCEPT ![d].cells[i] = Cleared(@)]
                     /\ Submit("clear_cell_output", notebooks', d)
                     /\ UNCHANGED << kernel_sessions, nextDoc, nextCell, iopub, op,
                                     result, ret, clock, effects >>
    /\ UNCHANGED << pumpVars, shVars, codVars >>

\* clear_all_outputs up to its await.
ClearAllOutputsAwaits(d) ==
    /\ op = NoOp
    /\ IF d \notin DOMAIN notebooks
       THEN Returns("clear_all_outputs", d, 404, "Notebook not found")
       ELSE LET cells == notebooks[d].cells
            IN  /\ notebooks' = [notebooks EXCEPT ![d].cells =
                        [i \in 1 .. Len(cells) |->
                            IF cells[i].type = "code" THEN Cleared(cells[i])
                            ELSE cells[i]]]
                /\ Submit("clear_all_outputs", notebooks', d)
                /\ UNCHANGED << kernel_sessions, nextDoc, nextCell, iopub, op,
                                result, ret, clock, effects >>
    /\ UNCHANGED << pumpVars, shVars, codVars >>

\* delete_notebook: it awaits nothing, so it runs as one step of the loop.
DeleteNotebookNow(d) ==
    /\ op = NoOp
    /\ kernel_sessions' = Without(kernel_sessions, d)
    /\ iopub' = Without(iopub, d)
    /\ notebooks' = Without(notebooks, d)
    /\ disk' = Without(disk, d)
    /\ files' = files \ {d}
    /\ ret' = Ret("delete_notebook", d, 200, "", <<>>, <<>>)
    /\ UNCHANGED << nextDoc, nextCell, op, result, clock, effects, writes >>
    /\ UNCHANGED << pumpVars, shVars, codVars >>

\* write_file runs in a thread of the executor: open(notebook_path, "w")
\* creates or truncates the file, json.dump writes notebook_data.  The future
\* completes and the handler that awaited it returns.
WriteFile(job) ==
    /\ \E w \in writes :
          /\ w.job = job
          /\ writes' = writes \ {w}
          /\ disk' = With(disk, w.doc, w.data)
          /\ files' = files \cup {w.doc}
          /\ ret' = Ret(w.op, w.doc, 200, "", <<>>, <<>>)
    /\ UNCHANGED << notebooks, kernel_sessions, nextDoc, nextCell, iopub, op, result,
                    clock, effects >>
    /\ UNCHANGED << pumpVars, shVars, codVars >>

(***************************************************************************)
(* Specifications                                                          *)
(***************************************************************************)
Init == InitPump /\ InitNotebook /\ InitShell /\ InitCodec /\ InitStore

\* One KernelSession.execute caller against a free kernel.
NextPump ==
    \/ Execute
    \/ PumpRecv
    \/ PumpEmpty
    \/ PumpContinue
    \/ PumpFault
    \/ \E type \in MsgTypes : KernelEmit(type)

SpecPump == Init /\ [][NextPump]_vars

\* The same where the loop of execute keeps going.
FairPump ==
    /\ WF_vars(PumpRecv)
    /\ WF_vars(PumpEmpty)
    /\ WF_vars(PumpContinue)

SpecPumpFair == SpecPump /\ FairPump

\* The notebook service from its construction on.
NextService ==
    \/ \E kernel_name \in KernelNames, launchOK \in BOOLEAN, info \in InfoOutcomes,
          saveOK \in BOOLEAN :
            CreateNotebook(kernel_name, launchOK, info, saveOK)
    \/ \E d \in DocArgs, in \in CellInputs, saveOK \in BOOLEAN : AddCell(d, in, saveOK)
    \/ \E d \in DocArgs, cell_id \in CellArgs, fault \in Faults :
            ExecuteCell(d, cell_id, fault)
    \/ \E d \in DocArgs, failAt \in 0 .. MaxCells, fault \in Faults :
            ExecuteAllCells(d, failAt, fault)

    \/ \E d \in DocArgs, cell_id \in CellArgs, saveOK \in BOOLEAN :
            ClearCellOutput(d, cell_id, saveOK)
    \/ \E d \in DocArgs, saveOK \in BOOLEAN : ClearAllOutputs(d, saveOK)
    \/ \E d \in DocArgs, shutdown \in ShutdownOutcomes, unlinkOK \in BOOLEAN :
            DeleteNotebook(d, shutdown, unlinkOK)

SpecService == Init /\ [][NextService]_vars

\* One notebook of the service, from its creation on.
NextDoc ==
    \/ \E d \in DocArgs, in \in CellInputs, saveOK \in BOOLEAN : AddCell(d, in, saveOK)
    \/ \E d \in DocArgs, cell_id \in CellArgs, fault \in Faults :
            ExecuteCell(d, cell_id, fault)
    \/ \E d \in DocArgs, failAt \in 0 .. MaxCells, fault \in Faults :
            ExecuteAllCells(d, failAt, fault)

InitDoc == InitPump /\ InitCreated /\ InitShell /\ InitCodec /\ InitStore

SpecDoc == InitDoc /\ [][NextDoc]_vars

\* The cells of one notebook under the handlers that touch them, from its
\* creation on; and the Jupyter format applied to a notebook or to a file.
NextCells ==
    \/ \E d \in DocArgs, in \in CellInputs, saveOK \in BOOLEAN : AddCell(d, in, saveOK)
    \/ \E d \in DocArgs, cell_id \in CellArgs, fault \in Faults :
            ExecuteCell(d, cell_id, fault)
    \/ \E d \in DocArgs, cell_id \in CellArgs, saveOK \in BOOLEAN :
            ClearCellOutput(d, cell_id, saveOK)
    \/ \E d \in DocArgs, saveOK \in BOOLEAN : ClearAllOutputs(d, saveOK)
    \/ Encode
    \/ Decode

InitCells ==
    /\ InitPump
    /\ InitShell
    /\ InitStore
    /\ \/ InitCreated /\ InitCodec
       \/ InitOffline /\ InitCodecInput

SpecCells == InitCells /\ [][NextCells]_vars

\* Notebooks created and deleted, and code executed outside any notebook.
NextLifecycle ==
    \/ \E kernel_name \in KernelNames, launchOK \in BOOLEAN, info \in InfoOutcomes,
          saveOK \in BOOLEAN :
            CreateNotebook(kernel_name, launchOK, info, saveOK)
    \/ \E d \in DocArgs, shutdown \in ShutdownOutcomes, unlinkOK \in BOOLEAN :
            DeleteNotebook(d, shutdown, unlinkOK)
    \/ \E content \in CodeContents, kernel_name \in KernelNames, launchOK \in BOOLEAN,
          info \in InfoOutcomes, sendOK \in BOOLEAN, shutdown \in ShutdownOutcomes :
            ExecuteCode(content, kernel_name, launchOK, info, sendOK, shutdown)

SpecLifecycle == Init /\ [][NextLifecycle]_vars

\* The shell tool and its callers, where a process asked to terminate ends
\* at once.
NextShell ==
    \/ \E c \in Callers : CallRestart(c, TRUE)
    \/ \E c \in Callers, command \in {None} \cup {Some(x) : x \in Commands} :
            CallCommand(c, command)
    \/ \E c \in Callers, ok \in BOOLEAN : StartDone(c, ok)
    \/ \E c \in Callers : Resume(c)
    \/ \E c \in Callers : TimeoutFire(c)
    \/ \E s \in SessionIds : ShellEmit(s)

SpecShell == Init /\ [][NextShell]_vars

\* The same where the shell and the event loop keep going.
FairShell ==
    /\ \A s \in SessionIds : WF_vars(ShellEmit(s))
    /\ \A c \in Callers : WF_vars(Resume(c))
    /\ \A c \in Callers : WF_vars(\E ok \in BOOLEAN : StartDone(c, ok))

SpecShellFair == SpecShell /\ FairShell

\* The shell tool and its callers, where a process asked to terminate ends
\* at once, later or never.
NextStop ==
    \/ \E c \in Callers, dies \in BOOLEAN : CallRestart(c, dies)
    \/ \E c \in Callers, command \in {None} \cup {Some(x) : x \in Commands} :
            CallCommand(c, command)
    \/ \E c \in Callers, ok \in BOOLEAN : StartDone(c, ok)
    \/ \E c \in Callers : Resume(c)
    \/ \E c \in Callers : TimeoutFire(c)
    \/ \E s \in SessionIds : ShellEmit(s)
    \/ \E s \in SessionIds : ProcessEnds(s)

SpecStop == Init /\ [][NextStop]_vars

\* The same where the shell and the event loop keep going; nothing makes a
\* process that was asked to terminate end.
SpecStopFair == SpecStop /\ FairShell

\* The shell tool with one caller, its calls one after the other.
NextRun ==
    \/ CallRestart(1, TRUE)
    \/ \E command \in {None} \cup {Some(x) : x \in Commands} : CallCommand(1, command)
    \/ \E ok \in BOOLEAN : StartDone(1, ok)
    \/ Resume(1)
    \/ TimeoutFire(1)
    \/ \E s \in SessionIds : ShellEmit(s)

SpecRun == Init /\ [][NextRun]_vars

\* The same where the shell and the event loop keep going and the timer of
\* asyncio.timeout expires unless the read loop is left before.
FairRun ==
    /\ \A s \in SessionIds : WF_vars(ShellEmit(s))
    /\ WF_vars(Resume(1))
    /\ WF_vars(\E ok \in BOOLEAN : StartDone(1, ok))
    /\ WF_vars(TimeoutFire(1))

SpecRunFair == SpecRun /\ FairRun

\* The event loop's thread is not inside KernelSession.execute.  execute is
\* called by a handler running on the loop and awaits nothing: from its call
\* to its return, get_iopub_msg's waits included, the thread stays in it.
LoopFree == pump.pc = "idle"

\* One caller of KernelSession.execute and one run of the shell tool on the
\* same event loop: a step of a coroutine needs the loop's thread, the
\* kernel and the shell are processes of their own.
NextLoop ==
    \/ Execute
    \/ PumpRecv
    \/ PumpEmpty
    \/ PumpContinue
    \/ PumpFault
    \/ \E type \in {"stream", "idle"} : KernelEmit(type)
    \/ LoopFree /\ ncalls = 0 /\ CallCommand(1, Some(EchoA))
    \/ LoopFree /\ \E ok \in BOOLEAN : StartDone(1, ok)
    \/ LoopFree /\ Resume(1)
    \/ LoopFree /\ TimeoutFire(1)
    \/ \E s \in SessionIds : ShellEmit(s)

SpecLoop == Init /\ [][NextLoop]_vars

\* The same where the loop, the shell and execute's loop keep going; the
\* kernel is free not to answer.
FairLoop ==
    /\ FairPump
    /\ \A s \in SessionIds : WF_vars(ShellEmit(s))
    /\ WF_vars(LoopFree /\ Resume(1))
    /\ WF_vars(LoopFree /\ \E ok \in BOOLEAN : StartDone(1, ok))

SpecLoopFair == SpecLoop /\ FairLoop

\* What add_cell is called with in SpecStore: code the kernel answers with
\* outputs, and text.
StoreInputs == {in \in CellInputs : in.content \in {"ok", "text"}}

\* The notebook handlers interleaved at their awaits, and the executor.
NextStore ==
    \/ CreateNotebookAwaits
    \/ \E d \in DocArgs, in \in StoreInputs : AddCellAwaits(d, in)
    \/ \E d \in DocArgs, cell_id \in CellArgs : ExecuteCellAwaits(d, cell_id)
    \/ \E d \in DocArgs, cell_id \in CellArgs : ClearCellOutputAwaits(d, cell_id)
    \/ \E d \in DocArgs : ClearAllOutputsAwaits(d)
    \/ \E d \in DocArgs : DeleteNotebookNow(d)
    \/ \E job \in 1 .. MaxJobs : WriteFile(job)

SpecStore == Init /\ [][NextStore]_vars

(***************************************************************************)
(* Properties                                                              *)
(***************************************************************************)
\* The cells of the notebook the last handler call was about.
RetCells == notebooks[ret.doc].cells

\* The set of the indices execute_all_cells returned.
Executed == {ret.executed[k] : k \in 1 .. Len(ret.executed)}

\* C1: when execute_all_cells returns, the cells it executed are the code
\* cells in notebook order up to and including the first one that ended in
\* Error: no code cell before the last executed one is skipped, none but the
\* last executed one is in Error, the run ends either with the last code cell
\* or with a cell in Error, and every other cell (each later code cell, each
\* non-code cell) is exactly as it was before the call.
C1_StopsAtFirstError ==
    (op = NoOp /\ ret.op = "execute_all_cells" /\ ret.code = 200)
    => LET cells == RetCells
           ex == ret.executed
           n == Len(ex)
       IN  /\ Len(cells) = Len(ret.before)
           /\ \A k \in 1 .. n : ex[k] \in CodeCells(ret.before)
           /\ \A k \in 1 .. n - 1 : ex[k] < ex[k + 1]
           /\ \A i \in CodeCells(ret.before) :
                  (n > 0 /\ i < ex[n]) => i \in Executed
           /\ \A k \in 1 .. n : cells[ex[k]].status \in {"complete", "error"}
           /\ \A k \in 1 .. n - 1 : cells[ex[k]].status = "complete"
           /\ \/ Executed = CodeCells(ret.before)
              \/ n > 0 /\ cells[ex[n]].status = "error"
           /\ \A i \in 1 .. Len(cells) : i \notin Executed => cells[i] = ret.before[i]

\* C1 happens: execute_all_cells returned on the cells [fail, ok], having
\* executed the first only, which is in Error, with the second still Idle.
C1_Witness ==
    /\ op = NoOp /\ ret.op = "execute_all_cells" /\ ret.code = 200
    /\ Len(RetCells) = 2
    /\ RetCells[1].content = "fail" /\ RetCells[2].content = "ok"
    /\ ret.executed = << 1 >>
    /\ RetCells[1].status = "error"
    /\ RetCells[2] = NotebookCell(RetCells[2].id, "code", "ok")

\* Since execute was called, some message the loop consumed at place k ends
\* the loop by the rule: an error, or an idle with an output before it.
StopAt(consumed, k) ==
    \/ consumed[k].type = "error"
    \/ /\ consumed[k].type = "idle"
       /\ \E j \in 1 .. k - 1 : consumed[j].type \in OutputTypes

\* The types of the output messages among consumed, in order.
OutputsOf(consumed) ==
    LET outs == SelectSeq(consumed, LAMBDA m : m.type \in OutputTypes)
    IN  [k \in 1 .. Len(outs) |-> outs[k].type]

\* C2: every call of execute eventually returns a result.
C2_ExecuteReturns == (pump.pc # "idle") ~> (pump.pc = "idle")

\* C3: an execute call whose wait for a message ran into the timeout with no
\* output received ends there: its next step returns, with an error in its
\* result.
C3_TimeoutEndsExecute ==
    [][(pump.pc = "empty" /\ pump.outputs = <<>> /\ pump' # pump)
          => (pump'.pc = "idle" /\ presult' # NoResult /\ presult'[1].error # None)]_vars

\* C4: when execute_cell has ended on a code cell whose execution raises in
\* the guest, execute returned a result with the guest's error, and the cell
\* has status Error; unless the save failed (which the call reports as
\* "Execution failed") the call returned without raising and the cell holds
\* the guest's error.  The session is not terminal: it stays registered, and
\* every execute_cell that ended on a code cell, after an error or not, was
\* executed by the kernel (the cell carries the session's new counter).
\* All this where the request reached the kernel (client.execute did not
\* raise): otherwise no guest code ran.
C4_GuestErrorRecorded ==
    (/\ op = NoOp /\ ret.op = "execute_cell" /\ ret.executed # <<>>
     /\ ret.detail # "Execution failed: send")
    => LET d == ret.doc
           cell == RetCells[ret.executed[1]]
       IN  /\ d \in DOMAIN kernel_sessions
           /\ result # NoResult
           /\ result[1].execution_count = kernel_sessions[d].execution_count
           /\ cell.execution_count = Some(kernel_sessions[d].execution_count)
           /\ cell.status \in {"complete", "error"}
           /\ cell.content = "fail"
                 => /\ result[1].error = GuestError
                    /\ cell.status = "error"
                    /\ \/ ret.code = 200 /\ cell.error = GuestError
                       \/ ret.detail = "Execution failed: save" /\ cell.error = GenericError

\* C4 happens: the last execute_cell returned a completed cell, executed
\* after a cell that raised and is in Error with the guest's error.
C4_Witness ==
    /\ op = NoOp /\ ret.op = "execute_cell" /\ ret.code = 200
    /\ ret.executed # <<>>
    /\ \E i \in 1 .. Len(RetCells) :
          /\ RetCells[i].content = "fail" /\ RetCells[i].status = "error"
          /\ RetCells[i].error = GuestError
          /\ RetCells[ret.executed[1]].status = "complete"
          /\ RetCells[i].execution_count # None
          /\ RetCells[i].execution_count[1]
                < RetCells[ret.executed[1]].execution_count[1]

\* C5: the outputs are the stream, execute_result and display_data messages
\* consumed, in arrival order; no message the loop consumed before its last
\* one ends the loop by the rule (an error, or an idle with an output before
\* it), so an idle before any output does not end it; while the loop runs no
\* consumed message does; and when execute has returned without an exception
\* of the transport, the last message consumed does, and the result carries
\* the outputs, and an error exactly when that message is an error.
C5_PumpStopsAtTerminator ==
    LET consumed == pump.consumed
        n == Len(consumed)
    IN  /\ pump.outputs = OutputsOf(consumed)
        /\ \A k \in 1 .. n - 1 : ~StopAt(consumed, k)
        /\ pump.pc # "idle" => (n > 0 => ~StopAt(consumed, n))
        /\ (pump.pc = "idle" /\ presult # NoResult /\ presult[1].error # GenericError)
              => /\ n > 0
                 /\ StopAt(consumed, n)
                 /\ presult[1].outputs = OutputsOf(consumed)
                 /\ (presult[1].error = GuestError) = (consumed[n].type = "error")
                 /\ (presult[1].error = None) = (consumed[n].type = "idle")

\* C5 happens: execute returned at the first idle after an output, having
\* passed an idle that came before any output.
C5_Witness ==
    /\ pump.pc = "idle" /\ presult # NoResult /\ presult[1].error = None
    /\ Len(pump.consumed) = 3
    /\ pump.consumed[1].type = "idle"
    /\ pump.consumed[2].type = "stream"
    /\ pump.consumed[3].type = "idle"
    /\ presult[1].outputs = << "stream" >>

\* C6: when create_notebook failed because the kernel did not start, the
\* notebook is in neither registry.
C6_FailedCreateLeavesNothing ==
    (ret.op = "create_notebook" /\ ret.detail = "Failed to create notebook: kernel")
    => /\ ret.doc \notin DOMAIN notebooks
       /\ ret.doc \notin DOMAIN kernel_sessions

\* The calls of the shell tool are serialized: only caller 1 has made any.
Serialized == call[2] = NoCall

\* C7: with serialized calls, a run that returns a result returns exactly the
\* lines its own command printed.
C7_OwnOutputOnly ==
    Serialized
    => \A c \in Callers :
          (call[c].pc = "done" /\ call[c].outcome = "CLIResult")
             => call[c].output = call[c].cmd[1].out

\* A run is in flight: it wrote its command and has not seen a sentinel or
\* the end of the stream.
InFlight(c) == call[c].kind = "command" /\ call[c].pc \in {"readwait", "readrun"}

\* C8: no two runs are in flight on one session at the same time.
C8_OneRunInFlight ==
    \A c1, c2 \in Callers :
        (InFlight(c1) /\ InFlight(c2) /\ call[c1].sess = call[c2].sess) => c1 = c2

\* C9: the timeout expiring in the read loop ends the call with the timed-out
\* error and sets the session's flag; the flag is never cleared; and a call
\* with a command while the tool's session is started and timed out ends at
\* once with the timed-out error (or with "must be restarted" when the shell
\* has also exited), and changes no process: it writes nothing.
C9_TimedOutSticks ==
    [][/\ \A s \in DOMAIN sessions :
              sessions[s].timed_out => (s \in DOMAIN sessions' /\ sessions'[s].timed_out)
       /\ \A c \in Callers :
              TimeoutFire(c)
                 => /\ call'[c].pc = "done"
                    /\ call'[c].outcome = "ToolError: timed out"
                    /\ sessions'[call[c].sess].timed_out
       /\ \A c \in Callers, command \in Commands :
              (/\ tool_session # 0
               /\ sessions[tool_session].started
               /\ sessions[tool_session].timed_out
               /\ CallCommand(c, Some(command)))
                 => /\ call'[c].pc = "done"
                    /\ call'[c].outcome \in {"ToolError: timed out", "must be restarted"}
                    /\ procs' = procs
      ]_vars

\* C9 happens: two calls were made on session 1, both ended with the timed-out
\* error, and one command line was written: one call timed out in the read
\* loop and the other was refused.
C9_Witness ==
    /\ ncalls = 2
    /\ \A c \in Callers :
          /\ call[c].pc = "done"
          /\ call[c].kind = "command"
          /\ call[c].sess = 1
          /\ call[c].outcome = "ToolError: timed out"
    /\ sessions[1].timed_out
    /\ procs[1].returncode = None
    /\ procs[1].written = 1

\* Caller c is inside the first run on a session that a restart created after
\* the session before it had timed out, and nobody else calls the tool.
RunsAfterRestart(c) ==
    /\ call[3 - c] = NoCall
    /\ call[c].kind = "command"
    /\ call[c].pc # "done"
    /\ call[c].sess > 1
    /\ sessions[call[c].sess - 1].timed_out
    /\ call[c].sess \in DOMAIN procs
    /\ procs[call[c].sess].written = 1

\* C10: the first call with a command after a restart of a timed-out session
\* returns: its result, or the timed-out error should its own read loop time out.
C10_RestartedRunReturns ==
    \A c \in Callers :
        RunsAfterRestart(c)
           ~> (call[c].pc = "done"
                 /\ call[c].outcome \in {"CLIResult", "ToolError: timed out"})

\* C11: a call with a command while the tool's session is started and its
\* process has exited ends at once by returning (its outcome is a result, not
\* a ToolError) the "tool must be restarted" result, which carries the
\* process's return code; it changes no process (it writes nothing) and no
\* session.
C11_ExitedShellMustRestart ==
    [][\A c \in Callers, command \in Commands :
          (/\ tool_session # 0
           /\ sessions[tool_session].started
           /\ procs[tool_session].returncode # None
           /\ CallCommand(c, Some(command)))
             => /\ call'[c].pc = "done"
                /\ call'[c].outcome = "must be restarted"
                /\ call'[c].error = procs[tool_session].returncode
                /\ call'[c].output = <<>>
                /\ procs' = procs
                /\ sessions' = sessions
                /\ tool_session' = tool_session
      ]_vars

\* C11 happens: the first call's command ended the shell (return code 0), the
\* second call was answered "must be restarted" with that code, and one
\* command line was written in all.
C11_Witness ==
    /\ ncalls = 2
    /\ tool_session = 1
    /\ 1 \in DOMAIN procs
    /\ procs[1].returncode = Some(0)
    /\ procs[1].written = 1
    /\ \E c \in Callers :
          /\ call[c].pc = "done"
          /\ call[c].kind = "command"
          /\ call[c].outcome = "must be restarted"
          /\ call[c].error = Some(0)

\* C12: a call with a command while the tool's session has not started (its
\* spawn is pending or has failed) ends at once with the not-started error;
\* no process is spawned or written to, no session flag changes, and the tool
\* keeps its session.
C12_UnstartedRunFails ==
    [][\A c \in Callers, command \in Commands :
          (/\ tool_session # 0
           /\ ~sessions[tool_session].started
           /\ CallCommand(c, Some(command)))
             => /\ call'[c].pc = "done"
                /\ call'[c].outcome = "ToolError: not started"
                /\ call'[c].output = <<>>
                /\ procs' = procs
                /\ sessions' = sessions
                /\ tool_session' = tool_session
                /\ nextSession' = nextSession
      ]_vars

\* C12 happens: the spawn of session 1 failed, and the next call with a
\* command got the not-started error; there is no process.
C12_Witness ==
    /\ tool_session = 1
    /\ ~sessions[1].started
    /\ procs = << >>
    /\ call[1].outcome = "OSError"
    /\ call[2].pc = "done"
    /\ call[2].kind = "command"
    /\ call[2].sess = 1
    /\ call[2].outcome = "ToolError: not started"

\* A handler call that ended in a lookup failure did nothing: no notebook or
\* cell changed, nothing was sent to a kernel (no counter moved, no message
\* was read), nothing was written.
NoSideEffect ==
    /\ notebooks' = notebooks
    /\ kernel_sessions' = kernel_sessions
    /\ iopub' = iopub
    /\ files' = files
    /\ effects' = <<>>
    /\ op' = op

\* Some handler that takes a notebook id is called with d.
CalledOn(d) ==
    \/ \E in \in CellInputs, saveOK \in BOOLEAN : AddCell(d, in, saveOK)
    \/ \E cell_id \in CellArgs, fault \in Faults : ExecuteCell(d, cell_id, fault)
    \/ \E failAt \in 0 .. MaxCells, fault \in Faults : ExecuteAllCells(d, failAt, fault)
    \/ \E cell_id \in CellArgs, saveOK \in BOOLEAN : ClearCellOutput(d, cell_id, saveOK)
    \/ \E saveOK \in BOOLEAN : ClearAllOutputs(d, saveOK)

\* execute_cell or clear_cell_output is called with d and cell_id.
CalledOnCell(d, cell_id) ==
    \/ \E fault \in Faults : ExecuteCell(d, cell_id, fault)
    \/ \E saveOK \in BOOLEAN : ClearCellOutput(d, cell_id, saveOK)

\* C13: add_cell, execute_cell, execute_all_cells, clear_cell_output and
\* clear_all_outputs called with an id that is not registered end with 404
\* "Notebook not found"; execute_cell and clear_cell_output called with a
\* registered id and a cell id the notebook does not hold end with 404 "Cell
\* not found"; and either way the call has no side effect.
C13_LookupFailuresRejected ==
    [][\A d \in DocArgs :
          /\ (d \notin DOMAIN notebooks /\ CalledOn(d))
                => /\ ret'.code = 404
                   /\ ret'.detail = "Notebook not found"
                   /\ NoSideEffect
          /\ \A cell_id \in CellArgs :
                (/\ d \in DOMAIN notebooks
                 /\ CellIndex(notebooks[d].cells, cell_id) = 0
                 /\ CalledOnCell(d, cell_id))
                   => /\ ret'.code = 404
                      /\ ret'.detail = "Cell not found"
                      /\ NoSideEffect
      ]_vars

\* The ids of cells, in order.
IdsOf(cells) == [i \in 1 .. Len(cells) |-> cells[i].id]

\* C14: the cells of a notebook are in the order of the add_cell calls that
\* made them (ids are drawn in call order, so: in increasing order of id),
\* no two have the same id, and every cell ever added to a registered
\* notebook is in it.
C14_CellsInCallOrder ==
    /\ \A d \in DOMAIN notebooks :
          \A i, j \in 1 .. Len(notebooks[d].cells) :
              i < j => notebooks[d].cells[i].id < notebooks[d].cells[j].id
    /\ op # Offline
          => UNION {{notebooks[d].cells[i].id : i \in 1 .. Len(notebooks[d].cells)} :
                        d \in DOMAIN notebooks} = 1 .. nextCell - 1

\* C14 happens: the second cell was added after the first had been executed
\* and then cleared, and it comes second.
C14_Witness ==
    /\ 1 \in DOMAIN notebooks
    /\ IdsOf(notebooks[1].cells) = << 1, 2 >>
    /\ kernel_sessions[1].execution_count = 1
    /\ notebooks[1].cells[1].execution_count = None
    /\ notebooks[1].cells[2].type = "markdown"
    /\ ret.op = "add_cell" /\ ret.code = 200

\* C15: a handler call that returns with some cell of a notebook changed, or
\* with a cell added, leaves the notebook's updated_at greater than before.
C15_UpdatedAtIncreases ==
    [][\A d \in DOMAIN notebooks :
          (/\ d \in DOMAIN notebooks'
           /\ notebooks'[d].cells # notebooks[d].cells
           /\ op' = NoOp
           /\ ret'.code = 200)
             => notebooks'[d].updated_at > notebooks[d].updated_at
      ]_vars

\* No cell of cells other than a code cell has outputs, an execution count or
\* an error.
NonCodeClean(cells) ==
    \A i \in 1 .. Len(cells) :
        cells[i].type # "code"
           => /\ cells[i].outputs = <<>>
              /\ cells[i].execution_count = None
              /\ cells[i].error = None

\* C16: in every registered notebook, and in every notebook that
\* _from_jupyter_format returns, the cells that are not code cells have no
\* outputs, no execution count and no error.
C16_NonCodeCellsClean ==
    /\ \A d \in DOMAIN notebooks : NonCodeClean(notebooks[d].cells)
    /\ loaded # None => NonCodeClean(loaded[1].cells)

\* C16 happens: a file whose first record is a markdown cell with an output
\* and an execution count, and whose second is a raw cell with both, was
\* decoded into a notebook of two cells.
C16_Witness ==
    /\ notebook_data # None
    /\ loaded # None
    /\ Len(notebook_data[1].cells) = 2
    /\ notebook_data[1].cells[1].cell_type = "markdown"
    /\ notebook_data[1].cells[1].outputs = Some(<< "stream" >>)
    /\ notebook_data[1].cells[1].execution_count = Some(Some(1))
    /\ notebook_data[1].cells[2].cell_type = "raw"
    /\ Len(loaded[1].cells) = 2
    /\ loaded[1].cells[1].type = "markdown"

\* C17: a notebook decoded from its own encoding has as many cells as the
\* notebook, and the i-th has the text, the type and the metadata of the
\* notebook's i-th.
C17_RoundTrip ==
    (notebook # None /\ loaded # None)
    => LET cells == notebook[1].cells
           back == loaded[1].cells
       IN  /\ Len(back) = Len(cells)
           /\ \A i \in 1 .. Len(cells) :
                 /\ back[i].content = cells[i].content
                 /\ back[i].type = cells[i].type
                 /\ back[i].metadata = cells[i].metadata

\* C17 happens: a notebook of a markdown cell holding "\r\n", a blank and no
\* final terminator, with metadata, and a code cell after it was encoded into
\* two records, the first of two lines, and decoded again.
C17_Witness ==
    /\ notebook # None /\ notebook_data # None /\ loaded # None
    /\ Len(notebook[1].cells) = 2
    /\ notebook[1].cells[1].type = "markdown"
    /\ notebook[1].cells[1].content = << "CR", "LF", " " >>
    /\ notebook[1].cells[1].metadata = {"collapsed"}
    /\ notebook[1].cells[2].type = "code"
    /\ notebook_data[1].cells[1].source = << << "CR", "LF" >>, << " " >> >>
    /\ Len(loaded[1].cells) = 2

\* C18: when execute_cell has ended on a code cell, by returning or by
\* raising, the cell's outputs and error are those of this call: the outputs
\* and the error of the result execute returned (with the error of the
\* exception in place of it when the save raised), or no output and the error
\* of the exception when execute raised; and when clear_cell_output or
\* clear_all_outputs has ended on a cell, it has no output and no error.
C18_ResultsReplaced ==
    /\ (op = NoOp /\ ret.op = "execute_cell" /\ ret.executed # <<>>)
          => LET cell == RetCells[ret.executed[1]]
             IN  IF ret.detail = "Execution failed: send"
                 THEN cell.outputs = <<>> /\ cell.error = GenericError
                 ELSE /\ cell.outputs = result[1].outputs
                      /\ cell.error = IF ret.code = 200 THEN result[1].error
                                      ELSE GenericError
    /\ (op = NoOp /\ ret.op = "clear_cell_output" /\ ret.executed # <<>>)
          => LET cell == RetCells[ret.executed[1]]
             IN  cell.outputs = <<>> /\ cell.error = None
    /\ (op = NoOp /\ ret.op = "clear_all_outputs" /\ ret.code # 404)
          => \A i \in 1 .. Len(RetCells) :
                RetCells[i].outputs = <<>> /\ RetCells[i].error = None

\* The entries of effects that are a shutdown or the removal of an artifact.
Shutdowns == {ShutdownEffect(shutdown) : shutdown \in ShutdownOutcomes}
Unlinks == {UnlinkEffect(ok) : ok \in BOOLEAN}

\* C19: when delete_notebook has ended, the id is in neither registry; the
\* session, if one was bound, was shut down (successfully or not) before
\* anything else was done; the artifact was unlinked, if at all, after
\* everything else; and if the artifact is still there, the unlink was
\* attempted and failed.
C19_DeleteRunsEveryStep ==
    (op = NoOp /\ ret.op = "delete_notebook")
    => /\ ret.doc \notin DOMAIN notebooks
       /\ ret.doc \notin DOMAIN kernel_sessions
       /\ \A i \in 1 .. Len(effects) :
             /\ effects[i] \in Shutdowns => i = 1
             /\ effects[i] = "del kernel_sessions" => (i = 2 /\ effects[1] \in Shutdowns)
             /\ effects[i] \in Unlinks => i = Len(effects)
       /\ ret.doc \in files
             => (effects # <<>> /\ effects[Len(effects)] = UnlinkEffect(FALSE))
       /\ ret.code = 200 <=> ret.doc \notin files

\* C19 happens: a notebook with a session and an artifact was deleted; the
\* shutdown of its kernel failed, and the three later steps were done.
C19_Witness ==
    /\ ret.op = "delete_notebook" /\ ret.doc = 1 /\ ret.code = 200
    /\ effects = << ShutdownEffect("shutdown_kernel raises"), "del kernel_sessions", "del notebooks",
                    UnlinkEffect(TRUE) >>
    /\ notebooks = << >>
    /\ kernel_sessions = << >>
    /\ files = {}

\* C20: a call of execute_code changes neither registry (nor a session's
\* counter or unread messages), whether it ends or hangs; and when it has
\* ended after its session was created, the last thing it did was to shut
\* the session down; when the session's constructor raised there is no session,
\* and no shutdown.
C20_TemporarySession ==
    [][/\ ((op' = NoOp /\ ret'.op = "execute_code") \/ op'.kind = "execute_code")
             => /\ notebooks' = notebooks
                /\ kernel_sessions' = kernel_sessions
                /\ iopub' = iopub
       /\ (op' = NoOp /\ ret'.op = "execute_code"
              /\ ret'.detail # "Failed to start kernel")
             => /\ effects'[1] = "start_kernel"
                /\ effects'[Len(effects')] \in Shutdowns
                /\ \A i \in 1 .. Len(effects') - 1 : effects'[i] \notin Shutdowns
       /\ (op' = NoOp /\ ret'.op = "execute_code"
              /\ ret'.detail = "Failed to start kernel")
             => /\ ret'.code = 500
                /\ \A i \in 1 .. Len(effects') : effects'[i] \notin Shutdowns
      ]_vars

\* C20 happens: with a notebook registered, execute_code ended in a 500
\* because client.execute raised, and the session was shut down.
C20_Witness ==
    /\ op = NoOp /\ ret.op = "execute_code" /\ ret.code = 500
    /\ effects = << "start_kernel", "kernel_info replied", "client.execute failed",
                    ShutdownEffect("stops") >>
    /\ 1 \in DOMAIN notebooks
    /\ 1 \in DOMAIN kernel_sessions

\* C25: execute_cell called on a markdown or raw cell of a registered
\* notebook returns (200) and changes nothing: no cell, no notebook's
\* updated_at, no session's counter or unread messages, no artifact; nothing
\* is sent to a kernel and nothing is written.
C25_NonCodeCellUntouched ==
    [][\A d \in DOMAIN notebooks :
          \A i \in 1 .. Len(notebooks[d].cells) :
              (/\ notebooks[d].cells[i].type # "code"
               /\ \E fault \in Faults : ExecuteCell(d, notebooks[d].cells[i].id, fault))
                 => /\ ret'.code = 200
                    /\ notebooks' = notebooks
                    /\ kernel_sessions' = kernel_sessions
                    /\ iopub' = iopub
                    /\ files' = files
                    /\ clock' = clock
                    /\ effects' = <<>>
      ]_vars

\* C26: whenever no handler is inside an execution, no cell is Running; when
\* execute_cell has ended on a code cell, by returning or by raising (the
\* request could not be sent, or the save failed), the cell is Complete or
\* Error; and when it returned, the cell is in Error exactly when the result
\* execute returned carries an error.
C26_NeverLeftRunning ==
    /\ op = NoOp
          => \A d \in DOMAIN notebooks :
                \A i \in 1 .. Len(notebooks[d].cells) :
                    notebooks[d].cells[i].status # "running"
    /\ (op = NoOp /\ ret.op = "execute_cell" /\ ret.executed # <<>>)
          => LET cell == RetCells[ret.executed[1]]
             IN  /\ cell.status \in {"complete", "error"}
                 /\ ret.code # 200 => cell.status = "error"
                 /\ ret.code = 200
                       => /\ result # NoResult
                          /\ (cell.status = "error") = (result[1].error # None)
                          /\ (cell.status = "complete") = (result[1].error = None)

\* C26 happens: execute_cell ended by raising, the save having failed after
\* an execution without error, and the cell is in Error; another cell is
\* Complete from a call that returned.
C26_Witness ==
    /\ op = NoOp /\ ret.op = "execute_cell" /\ ret.code = 500
    /\ ret.detail = "Execution failed: save"
    /\ ret.executed # <<>>
    /\ result # NoResult /\ result[1].error = None
    /\ RetCells[ret.executed[1]].status = "error"
    /\ \E i \in 1 .. Len(RetCells) : RetCells[i].status = "complete"

\* C27: every call of execute made by execute_cell on a code cell, whether
\* it returns, raises or never ends, increases the session's execution
\* counter by exactly 1; and when execute_cell returns, the cell's
\* execution_count and the result's are the counter's new value.
C27_CounterCountsCalls ==
    [][\A d \in DOMAIN kernel_sessions :
          (/\ op = NoOp
           /\ \/ op' = NoOp /\ ret'.op = "execute_cell" /\ ret'.doc = d
                            /\ ret'.executed # <<>>
              \/ op'.kind = "execute_cell" /\ op'.doc = d)
             => /\ kernel_sessions'[d].execution_count
                      = kernel_sessions[d].execution_count + 1
                /\ (op' = NoOp /\ ret'.code = 200)
                      => /\ notebooks'[d].cells[ret'.executed[1]].execution_count
                               = Some(kernel_sessions'[d].execution_count)
                         /\ result'[1].execution_count
                               = kernel_sessions'[d].execution_count
      ]_vars

\* What a deterministic kernel answers to a source text, whatever ran before:
\* its outputs in order, and its error.
KernelOutputs(content) == OutputsOf(Script(content, 0))
KernelError(content) ==
    IF \E k \in 1 .. Len(Script(content, 0)) : Script(content, 0)[k].type = "error"
    THEN GuestError ELSE None

\* The fault the call that ret describes met.
FaultOf(r) ==
    IF r.code = 200 THEN "none"
    ELSE IF r.detail = "Execution failed: send" THEN "send" ELSE "save"

C30_SentinelIsPerCall ==
    Serialized
    => \A c \in Callers :
          (call[c].pc = "done" /\ call[c].outcome = "CLIResult")
             => /\ \A i \in 1 .. Len(call[c].cmd[1].out) :
                      \E j \in 1 .. Len(call[c].output) :
                          call[c].output[j] = call[c].cmd[1].out[i]
                /\ procs[call[c].sess].stdout = <<>>

\* The identity requests that time out or raise.
InfoFailures == {"kernel_info timed out", "kernel_info raised"}

\* C28: when the kernel-info request of a starting session timed out or
\* raised, the session was created all the same: create_notebook registered
\* it and did not fail for the kernel (only a failing save makes it fail),
\* execute_code went on to execute; and the registered session's identity is
\* the kernel spec's display name and language with file extension ".txt",
\* mimetype "text/plain" and no version.
C28_IdentityFallback ==
    /\ (op = NoOp /\ ret.op = "create_notebook"
          /\ Len(effects) >= 2 /\ effects[2] \in InfoFailures)
          => /\ ret.detail # "Failed to create notebook: kernel"
             /\ ret.doc \in DOMAIN kernel_sessions
             /\ LET name == notebooks[ret.doc].kernel_name
                IN  kernel_sessions[ret.doc].kernel_info =
                        KernelInfo(name, KernelSpec(name).display_name,
                                   KernelSpec(name).language, ".txt", "text/plain", None)
    /\ (ret.op = "execute_code" /\ Len(effects) >= 2 /\ effects[2] \in InfoFailures)
          => /\ Len(effects) >= 3
             /\ op = NoOp => ret.detail # "Failed to start kernel"

\* C28 happens: create_notebook returned although the kernel-info request
\* timed out, and the session carries the fallback identity.
C28_Witness ==
    /\ op = NoOp /\ ret.op = "create_notebook" /\ ret.code = 200
    /\ effects = << "start_kernel", "kernel_info timed out", SaveEffect(TRUE) >>
    /\ 1 \in DOMAIN kernel_sessions
    /\ kernel_sessions[1].kernel_info.file_extension = ".txt"
    /\ kernel_sessions[1].kernel_info.version = None
    /\ kernel_sessions[1].kernel_info.display_name = "Python 3"

\* C29: a shell process that stop() asked to terminate eventually is no
\* longer running.
C29_StoppedProcessEnds ==
    \A s \in SessionIds :
        (s \in DOMAIN procs /\ procs[s].signalled)
           ~> (s \in DOMAIN procs /\ procs[s].returncode # None)


\* C21: whenever no handler on a registered notebook is suspended in its
\* save, the notebook's artifact exists and holds the encoding of the
\* notebook as it is in memory.
C21_ArtifactIsEncoding ==
    \A d \in DOMAIN notebooks :
        ~Saving(d) => (d \in DOMAIN disk /\ disk[d] = ToJupyterNamed(notebooks[d]))

\* C22: once a notebook that was created is no longer registered (only
\* delete_notebook unregisters one) and no handler on it is still suspended,
\* it has no kernel session and no artifact.
C22_DeletedLeavesNothing ==
    \A d \in 1 .. nextDoc - 1 :
        (d \notin DOMAIN notebooks /\ ~Saving(d))
            => (d \notin DOMAIN kernel_sessions /\ d \notin DOMAIN disk)

\* C23: a shell run that its shell's output has woken runs on, also while a
\* KernelSession.execute is waiting for the kernel's messages.
C23_WokenRunRunsOn ==
    \A c \in Callers :
        (call[c].pc \in {"readrun", "errrun"}) ~> (call[c].pc \notin {"readrun", "errrun"})

\* C31: a run that has written its command to a started, live, not timed-out
\* session eventually ends, with the command's result or with the timed-out
\* error.
C31_RunCompletes ==
    (call[1].kind = "command" /\ call[1].pc \in {"readwait", "readrun", "errwait", "errrun"})
        ~> (call[1].pc = "done"
              /\ call[1].outcome \in {"CLIResult", "ToolError: timed out"})

\* C32: between handler calls the notebook registry and the kernel-session
\* registry hold the same ids.
C32_RegistriesAgree == DOMAIN notebooks = DOMAIN kernel_sessions

\* C33: in a registered notebook a cell with status error has an error; a
\* cell with status complete has no error and has an execution_count; a cell
\* with status idle has no outputs, no error and no execution_count.
C33_StatusMatchesFields ==
    \A d \in DOMAIN notebooks :
        \A i \in 1 .. Len(notebooks[d].cells) :
            LET cell == notebooks[d].cells[i]
            IN  /\ cell.status = "error" => cell.error # None
                /\ cell.status = "complete"
                      => (cell.error = None /\ cell.execution_count # None)
                /\ cell.status = "idle"
                      => (cell.outputs = <<>> /\ cell.error = None
                            /\ cell.execution_count = None)

\* A notebook whose first cell was executed and then cleared and whose second
\* cell ended in an error.
C33_Witness ==
    /\ ret.op = "clear_cell_output" /\ ret.code = 200
    /\ 1 \in DOMAIN notebooks
    /\ Len(notebooks[1].cells) = 2
    /\ notebooks[1].cells[1].status = "idle"
    /\ notebooks[1].cells[2].status = "error"
    /\ kernel_sessions[1].execution_count = 2

\* C34: when execute has returned, every message it took an output or the
\* error from, and the message its loop ended on, was broadcast for this
\* call's own request.
C34_OwnMessagesOnly ==
    (pump.pc = "idle" /\ presult # NoResult)
    => LET n == Len(pump.consumed)
       IN  /\ \A i \in 1 .. n :
                pump.consumed[i].type \in OutputTypes \cup {"error"}
                    => pump.consumed[i].parent = session.execution_count
           /\ (n > 0 /\ presult[1].error # GenericError)
                => pump.consumed[n].parent = session.execution_count

\* C35: no call with a command ends with the not-started error.
C35_CommandNeverUnstarted ==
    \A c \in Callers :
        call[c].kind = "command" => call[c].outcome # "ToolError: not started"

\* C36: a restart call never ends with an error of the session it replaces:
\* it ends restarted, or with the error of its own spawn.
C36_RestartSucceeds ==
    \A c \in Callers :
        (call[c].kind = "restart" /\ call[c].pc = "done")
            => call[c].outcome \in {"restarted", "OSError"}

\* C37: whenever a handler called KernelSession.shutdown, the kernel manager
\* was asked to shut the kernel down.
C37_ShutdownAsksKernel ==
    \A i \in 1 .. Len(effects) :
        effects[i] \in Shutdowns
            => effects[i] # ShutdownEffect("client.shutdown raises")

\* C38: when execute_cell raised because the save failed after an execution
\* that ended without error, the cell is Complete, has no error, and holds the
\* outputs of that execution.
C38_SaveFailureKeepsOutcome ==
    (/\ op = NoOp
     /\ ret.op = "execute_cell"
     /\ ret.detail = "Execution failed: save"
     /\ result # NoResult
     /\ result[1].error = None)
        => LET cell == RetCells[ret.executed[1]]
           IN  /\ ret.code = 500
               /\ cell.status = "complete"
               /\ cell.error = None
               /\ cell.outputs = result[1].outputs
====
